---- MODULE Spec2Model ----
(***************************************************************************)
(* A model of psh: the performance-counter wrappers of host-op-perf        *)
(* (counting/single/raw.rs, counting/group/raw.rs), the telemetry export   *)
(* bridge (src/runtime/data_export.rs), the system-information host        *)
(* functions (src/op/mod.rs) and the start-up of the daemon (src/main.rs). *)
(*                                                                         *)
(* The wrappers forward to perf_event_rs, which sits on the kernel's       *)
(* perf_event descriptors.  What the wrappers decide themselves is the     *)
(* ownership of their arguments: a parameter taken by value is consumed    *)
(* (enable and into_fixed take the CounterGroup), one taken by reference   *)
(* stays with the caller (the Config of counter_new and add_member).  The  *)
(* kernel events behind them are modelled by the records of `kernel'.      *)
(***************************************************************************)
EXTENDS Integers, Sequences, FiniteSets, TLC

\* ------------------------------------------------------------------ bounds
MaxMembers == 2      \* members admitted to one group
MaxTime == 2         \* kernel clock ticks in one run
MaxCalls == 2        \* export calls a guest makes in one run
MaxSteps == 2        \* guest steps and host calls in one run

Configs == {"cfgA", "cfgB"}     \* the Config values the caller has built
Counters == {"c1"}
Groups == {"g1"}
\* descriptors the kernel hands out in one run: one per counter and per member
MaxFd == Cardinality(Counters) + Cardinality(Groups) * MaxMembers
Fds == 1..MaxFd

VARIABLES
    cfgs,      \* the caller's Config values: [live]
    kernel,    \* the kernel's perf events, by descriptor
    nextFd,    \* the next descriptor the kernel hands out
    nextId,    \* the kernel's event-id counter
    clock,     \* kernel time
    counter,   \* the Counter values: [st, fd]
    group,     \* the CounterGroup values (Building): [st, members, by]
    fixed,     \* the FixedCounterGroup values: [st, members, via, enables, trans]
    guards,    \* the CounterGuards handed out, in order: [group, id, fd]
    torn,      \* the guest instance has been torn down
    ret,       \* the result of the last perf call: [op, ok, grp, k, id, stat]
    \* the export bridge (DataExportCtx and the guest that calls it)
    rpc_client, \* Option<RpcClient>: "None" or "Some"
    sent,      \* the requests handed to the transport, in order
    calls,     \* export calls made so far
    xret,      \* the result of the last export call: [op, outer, inner]
    xguest,    \* the guest that makes the export calls: "running" or "trapped"
    \* the sandbox: PshEngineBuilder, PshEngine::run and the guest it runs
    engine,    \* the capability domains granted: [perf, system]
    phase,     \* "builder", "built", "instantiated", "running", "failed",
               \* "finished", "trapped", "panicked"
    imports,   \* the capability domains the component imports
    arch,      \* std::env::consts::ARCH of the host
    runres,    \* what run returned: "none", "Ok", "ImportResolutionError", "Trap"
    gsteps,    \* steps of guest code executed
    hcalls,    \* host capability functions called
    hret,      \* the result of the last host call: [fn, levels, outcome]
    \* the calls made on a single Counter
    applied,   \* the last toggle that succeeded on the Counter, when, and how
               \* often in a row: [op, n, at]
    \* /proc/cpuinfo and what is made of it
    proc_cpuinfo, \* the file: [opened, lines]
    parsed_info, \* what do_parse_cpuinfo returned: [variant, list]
    cpu_res,   \* what get_cpu_info returned to the guest: [outer, inner, list]
    cache_line, \* a "cache size" line and the build that reads it:
               \* [value, overflow_checks]
    cache_size, \* what parse_cache_size made of it: [res, size]
    \* the processes of the system and the handles of SysCtx
    procs,     \* the process behind each pid, by its start marker (0: none)
    spawned,   \* processes started so far
    table,     \* SysCtx.table: the process each handle was minted for: [pid, start]
    pending,   \* the host calls of the guest instance that have not returned
    sret,      \* the result of the last call that returned: [fn, h, outcome, of]
    \* main
    pc,        \* where main is: "root", "args", "select", "daemon", "spawn",
               \* "build", "run", "join", "done"
    root,      \* what check_root_privilege() says
    args,      \* Args::parse(): [systemd, daemon, component_args]
    psh_config, \* the configuration main works with: [from, component_args]
    component_args, \* the argument vector chosen for the component
    hd,        \* where the background thread is: "none", "rt_new", "spawn",
               \* "otlp", "block_on", "returned"
    wasi_args, \* the argument vector the sandbox is built with, once it is
    component, \* the component engine.run was given, once it was
    exit_code, \* how the program ended: "none", "0", "1", "Err", "panic"
    rt,        \* the tokio runtime of the thread: "none", "alive", "dropped"
    task,      \* where the task spawned on it is: "none", "connect",
               \* "send_info", "heartbeat", "sleep", "ended", "dropped"
    cl,        \* what RpcClient::new gave: "none", "Ok", "Err"
    send_infos, \* the calls of send_info so far
    info_res,  \* what send_info gave: "none", "Ok", "Err"
    heartbeats \* the calls of heartbeat so far, counted up to MaxBeats

exportVars == <<rpc_client, sent, calls, xret, xguest>>

hostVars == <<engine, phase, imports, arch, runres, gsteps, hcalls, hret>>

perfVars == <<cfgs, kernel, nextFd, nextId, clock, counter, group, fixed, guards, torn, ret,
              applied>>

cpuVars == <<proc_cpuinfo, parsed_info, cpu_res>>

cacheVars == <<cache_line, cache_size>>

sysVars == <<procs, spawned, table, pending, sret>>

bgVars == <<rt, task, cl, send_infos, info_res, heartbeats>>

mainVars == <<pc, root, args, psh_config, component_args, hd, wasi_args, component, exit_code,
             bgVars>>

\* what the actions of one part leave alone: the state of the other parts
beyondPerf == <<exportVars, hostVars, cpuVars, sysVars, mainVars, cacheVars>>

beyondExport == <<perfVars, hostVars, cpuVars, sysVars, mainVars, cacheVars>>

beyondHost == <<perfVars, exportVars, cpuVars, sysVars, mainVars, cacheVars>>

beyondCpu == <<perfVars, exportVars, hostVars, sysVars, mainVars, cacheVars>>

beyondSys == <<perfVars, exportVars, hostVars, cpuVars, mainVars, cacheVars>>

beyondCache == <<perfVars, exportVars, hostVars, cpuVars, sysVars, mainVars>>

beyondMain == <<perfVars, exportVars, hostVars, cpuVars, sysVars, cacheVars>>

\* ------------------------------------------------------- the kernel's events
FreeEvent == [st |-> "free", leader |-> 0, id |-> 0, cfg |-> "none", on |-> FALSE,
              count |-> 0, te |-> 0, tr |-> 0, rel |-> 0]

\* perf_event_open with the attributes of Config cfg: a new event, disabled,
\* with its own id
NewEvent(leader, id, cfg) == [st |-> "open", leader |-> leader, id |-> id, cfg |-> cfg,
                              on |-> FALSE, count |-> 0, te |-> 0, tr |-> 0, rel |-> 0]

\* close(fd): the descriptor is released
ReleaseEvent(e) == [e EXCEPT !.st = "closed", !.on = FALSE, !.rel = @ + 1]

Range(s) == {s[i] : i \in DOMAIN s}

\* the kernel after the descriptors of S are closed
Released(S) == [fd \in Fds |-> IF fd \in S /\ kernel[fd].st = "open"
                                 THEN ReleaseEvent(kernel[fd]) ELSE kernel[fd]]

\* the kernel after PERF_EVENT_IOC_ENABLE / DISABLE on the descriptors of S
Switched(S, on) == [fd \in Fds |-> IF fd \in S THEN [kernel[fd] EXCEPT !.on = on]
                                   ELSE kernel[fd]]

\* the kernel after PERF_EVENT_IOC_RESET on the descriptors of S: the count only
Zeroed(S) == [fd \in Fds |-> IF fd \in S THEN [kernel[fd] EXCEPT !.count = 0]
                             ELSE kernel[fd]]

\* TickEvent with the running time advancing for every open event, enabled or not
TickEvent_unscheduled(e, run) ==
    IF e.st = "open"
    THEN [e EXCEPT !.te = IF e.on THEN @ + 1 ELSE @,
                   !.tr = @ + 1,
                   !.count = @ + 1]
    ELSE e

\* one clock tick: every enabled open event is schedulable for it (time_enabled);
\* the events of the groups in `run' are on the PMU for it (time_running, count)
TickEvent(e, run) ==
    IF e.st = "open" /\ e.on
    THEN [e EXCEPT !.te = @ + 1,
                   !.tr = IF e.leader \in run THEN @ + 1 ELSE @,
                   !.count = IF e.leader \in run THEN @ + 1 ELSE @]
    ELSE e

\* read(fd): count and the two times
ReadEvent(fd) == [event_id |-> kernel[fd].id, count |-> kernel[fd].count,
                  time_enabled |-> kernel[fd].te, time_running |-> kernel[fd].tr]

StatOf(members) == [i \in DOMAIN members |-> ReadEvent(members[i])]

\* ------------------------------------------------------------ call results
\* Ok(()) and Err(e): what a call that yields no value returns
OkUnit == [op |-> "unit", ok |-> TRUE, grp |-> "none", k |-> 0, id |-> 0, stat |-> <<>>]
IoErr == [op |-> "unit", ok |-> FALSE, grp |-> "none", k |-> 0, id |-> 0, stat |-> <<>>]
\* Ok(stat) and the u64 of event_id, with the call they come from (op) and the
\* group (grp) or guard (k) the call was made on
OkStat(op, g, k, s) == [op |-> op, ok |-> TRUE, grp |-> g, k |-> k, id |-> 0, stat |-> s]
OkId(op, g, k, id) == [op |-> op, ok |-> TRUE, grp |-> g, k |-> k, id |-> id, stat |-> <<>>]

\* --------------------------------------------------------------------- Init
PerfInit ==
    /\ cfgs = [c \in Configs |-> [live |-> TRUE]]
    /\ kernel = [fd \in Fds |-> FreeEvent]
    /\ nextFd = 1
    /\ nextId = MaxFd + 1
    /\ clock = 0
    /\ counter = [c \in Counters |-> [st |-> "none", fd |-> 0]]
    /\ group = [g \in Groups |-> [st |-> "none", members |-> <<>>, by |-> "none"]]
    /\ fixed = [g \in Groups |-> [st |-> "none", members |-> <<>>, via |-> "none",
                                  enables |-> 0, trans |-> 0]]
    /\ guards = <<>>
    /\ torn = FALSE
    /\ ret = OkUnit
    /\ applied = [op |-> "none", n |-> 0, at |-> 0]

\* ----------------------------------------------------------- single counter
\* counter_new taking the Config by value: the caller's Config is gone afterwards
counter_new_consuming(c, cfg) ==
    /\ ~torn
    /\ counter[c].st = "none"
    /\ cfgs[cfg].live
    /\ cfgs' = [cfgs EXCEPT ![cfg].live = FALSE]
    /\ \/ /\ nextFd <= MaxFd
          /\ kernel' = [kernel EXCEPT ![nextFd] = NewEvent(nextFd, nextId, cfg)]
          /\ nextFd' = nextFd + 1
          /\ nextId' = nextId + 1
          /\ counter' = [counter EXCEPT ![c] = [st |-> "Active", fd |-> nextFd]]
          /\ ret' = OkUnit
       \/ /\ ret' = IoErr
          /\ UNCHANGED <<kernel, nextFd, nextId, counter>>
    /\ UNCHANGED <<clock, group, fixed, guards, torn>>
    /\ UNCHANGED <<applied, beyondPerf>>

counter_new(c, cfg) ==
    /\ ~torn
    /\ counter[c].st = "none"
    /\ cfgs[cfg].live
    /\ \/ /\ nextFd <= MaxFd
          /\ kernel' = [kernel EXCEPT ![nextFd] = NewEvent(nextFd, nextId, cfg)]
          /\ nextFd' = nextFd + 1
          /\ nextId' = nextId + 1
          /\ counter' = [counter EXCEPT ![c] = [st |-> "Active", fd |-> nextFd]]
          /\ cfgs' = cfgs
          /\ ret' = OkUnit
       \/ /\ ret' = IoErr
          /\ UNCHANGED <<kernel, nextFd, nextId, counter, cfgs>>
    /\ UNCHANGED <<clock, group, fixed, guards, torn>>
    /\ UNCHANGED <<applied, beyondPerf>>

\* op has succeeded on the Counter: once more in a row when it is the toggle
\* that succeeded last and no time has passed since
Applied(op) ==
    [op |-> op, at |-> clock,
     n |-> IF applied.op = op /\ applied.at = clock THEN 2 ELSE 1]

NotApplied == [op |-> "none", n |-> 0, at |-> 0]

\* enable switching the counter over: on when it was off, off when it was on
counter_enable_toggling(c) ==
    /\ ~torn
    /\ counter[c].st = "Active"
    /\ \/ /\ kernel' = Switched({counter[c].fd}, ~kernel[counter[c].fd].on)
          /\ ret' = OkUnit
          /\ applied' = Applied("counter_enable")
       \/ /\ ret' = IoErr
          /\ applied' = NotApplied
          /\ UNCHANGED kernel
    /\ UNCHANGED <<cfgs, nextFd, nextId, clock, counter, group, fixed, guards, torn>>
    /\ UNCHANGED beyondPerf

counter_enable(c) ==
    /\ ~torn
    /\ counter[c].st = "Active"
    /\ \/ /\ kernel' = Switched({counter[c].fd}, TRUE)
          /\ ret' = OkUnit
          /\ applied' = Applied("counter_enable")
       \/ /\ ret' = IoErr
          /\ applied' = NotApplied
          /\ UNCHANGED kernel
    /\ UNCHANGED <<cfgs, nextFd, nextId, clock, counter, group, fixed, guards, torn>>
    /\ UNCHANGED beyondPerf

counter_disable(c) ==
    /\ ~torn
    /\ counter[c].st = "Active"
    /\ \/ /\ kernel' = Switched({counter[c].fd}, FALSE)
          /\ ret' = OkUnit
          /\ applied' = Applied("counter_disable")
       \/ /\ ret' = IoErr
          /\ applied' = NotApplied
          /\ UNCHANGED kernel
    /\ UNCHANGED <<cfgs, nextFd, nextId, clock, counter, group, fixed, guards, torn>>
    /\ UNCHANGED beyondPerf

counter_reset(c) ==
    /\ ~torn
    /\ counter[c].st = "Active"
    /\ \/ /\ kernel' = Zeroed({counter[c].fd})
          /\ ret' = OkUnit
          /\ applied' = Applied("counter_reset")
       \/ /\ ret' = IoErr
          /\ applied' = NotApplied
          /\ UNCHANGED kernel
    /\ UNCHANGED <<cfgs, nextFd, nextId, clock, counter, group, fixed, guards, torn>>
    /\ UNCHANGED beyondPerf

counter_stat(c) ==
    /\ ~torn
    /\ counter[c].st = "Active"
    /\ \/ ret' = OkStat("counter_stat", "none", 0, <<ReadEvent(counter[c].fd)>>)
       \/ ret' = IoErr
    /\ UNCHANGED <<cfgs, kernel, nextFd, nextId, clock, counter, group, fixed, guards, torn>>
    /\ UNCHANGED <<applied, beyondPerf>>

\* the Counter goes out of scope, or the guest closes its handle; closing a
\* handle that is closed already finds nothing to release
counter_close(c) ==
    /\ ~torn
    /\ counter[c].st \in {"Active", "Closed"}
    /\ IF counter[c].st = "Active"
       THEN /\ kernel' = Released({counter[c].fd})
            /\ counter' = [counter EXCEPT ![c].st = "Closed"]
       ELSE UNCHANGED <<kernel, counter>>
    /\ ret' = OkUnit
    /\ UNCHANGED <<cfgs, nextFd, nextId, clock, group, fixed, guards, torn>>
    /\ UNCHANGED <<applied, beyondPerf>>

\* ------------------------------------------------------------ counter group
counter_group_new(g) ==
    /\ ~torn
    /\ group[g].st = "none"
    /\ \/ /\ group' = [group EXCEPT ![g] = [st |-> "Building", members |-> <<>>, by |-> "none"]]
          /\ ret' = OkUnit
       \/ /\ ret' = IoErr
          /\ UNCHANGED group
    /\ UNCHANGED <<cfgs, kernel, nextFd, nextId, clock, counter, fixed, guards, torn>>
    /\ UNCHANGED <<applied, beyondPerf>>

\* the leader of a group's kernel events: its first member
LeaderOf(members, fd) == IF members = <<>> THEN fd ELSE members[1]

\* add_member handing out the id of the group (its leader's) instead of the member's
counter_group_add_member_leader_id(g, cfg) ==
    /\ ~torn
    /\ group[g].st = "Building"
    /\ cfgs[cfg].live
    /\ \/ /\ nextFd <= MaxFd
          /\ Len(group[g].members) < MaxMembers
          /\ kernel' = [kernel EXCEPT
                           ![nextFd] = NewEvent(LeaderOf(group[g].members, nextFd), nextId, cfg)]
          /\ nextFd' = nextFd + 1
          /\ nextId' = nextId + 1
          /\ group' = [group EXCEPT ![g].members = Append(@, nextFd)]
          /\ LET id == IF group[g].members = <<>> THEN nextId
                       ELSE kernel[group[g].members[1]].id
             IN /\ guards' = Append(guards, [group |-> g, id |-> id, fd |-> nextFd])
                /\ ret' = OkId("counter_group_add_member", g, Len(guards) + 1, id)
          /\ cfgs' = cfgs
       \/ /\ ret' = IoErr
          /\ UNCHANGED <<kernel, nextFd, nextId, group, guards, cfgs>>
    /\ UNCHANGED <<clock, counter, fixed, torn>>
    /\ UNCHANGED <<applied, beyondPerf>>

\* add_member borrows the group (&mut CounterGroup) and the Config (&mut Config)
counter_group_add_member(g, cfg) ==
    /\ ~torn
    /\ group[g].st = "Building"
    /\ cfgs[cfg].live
    /\ \/ /\ nextFd <= MaxFd
          /\ Len(group[g].members) < MaxMembers
          /\ kernel' = [kernel EXCEPT
                           ![nextFd] = NewEvent(LeaderOf(group[g].members, nextFd), nextId, cfg)]
          /\ nextFd' = nextFd + 1
          /\ nextId' = nextId + 1
          /\ group' = [group EXCEPT ![g].members = Append(@, nextFd)]
          /\ guards' = Append(guards, [group |-> g, id |-> nextId, fd |-> nextFd])
          /\ cfgs' = cfgs
          /\ ret' = OkId("counter_group_add_member", g, Len(guards) + 1, nextId)
       \/ /\ ret' = IoErr
          /\ UNCHANGED <<kernel, nextFd, nextId, group, guards, cfgs>>
    /\ UNCHANGED <<clock, counter, fixed, torn>>
    /\ UNCHANGED <<applied, beyondPerf>>

\* the FixedCounterGroup a Building group turns into
FixedFrom(g, via) == [st |-> "Fixed", members |-> group[g].members, via |-> via,
                      enables |-> 0, trans |-> fixed[g].trans + 1]

\* enable taking the group by reference: the caller keeps a Building group
counter_group_enable_by_ref(g) ==
    /\ ~torn
    /\ group[g].st = "Building"
    /\ \/ /\ fixed' = [fixed EXCEPT ![g] = FixedFrom(g, "enable")]
          /\ kernel' = Switched(Range(group[g].members), TRUE)
          /\ ret' = OkUnit
       \/ /\ ret' = IoErr
          /\ UNCHANGED <<fixed, kernel>>
    /\ UNCHANGED <<cfgs, nextFd, nextId, clock, counter, group, guards, torn>>
    /\ UNCHANGED <<applied, beyondPerf>>

\* enable forgetting the group it consumed when the activation fails: the
\* members' descriptors are never closed
counter_group_enable_leak(g) ==
    /\ ~torn
    /\ group[g].st = "Building"
    /\ group' = [group EXCEPT ![g].st = "Moved", ![g].by = "enable"]
    /\ \/ /\ fixed' = [fixed EXCEPT ![g] = FixedFrom(g, "enable")]
          /\ kernel' = Switched(Range(group[g].members), TRUE)
          /\ ret' = OkUnit
       \/ /\ ret' = IoErr
          /\ UNCHANGED <<fixed, kernel>>
    /\ UNCHANGED <<cfgs, nextFd, nextId, clock, counter, guards, torn>>
    /\ UNCHANGED <<applied, beyondPerf>>

\* enable handing the group back to the caller when the activation fails
counter_group_enable_handing_back(g) ==
    /\ ~torn
    /\ group[g].st = "Building"
    /\ \/ /\ group' = [group EXCEPT ![g].st = "Moved", ![g].by = "enable"]
          /\ fixed' = [fixed EXCEPT ![g] = FixedFrom(g, "enable")]
          /\ kernel' = Switched(Range(group[g].members), TRUE)
          /\ ret' = OkUnit
       \/ /\ group' = [group EXCEPT ![g].by = "enable"]
          /\ ret' = IoErr
          /\ UNCHANGED <<fixed, kernel>>
    /\ UNCHANGED <<cfgs, nextFd, nextId, clock, counter, guards, torn>>
    /\ UNCHANGED <<applied, beyondPerf>>

\* enable takes the CounterGroup by value: the caller's group is gone whether the
\* call succeeds or not, and on failure the value is dropped inside the call
counter_group_enable(g) ==
    /\ ~torn
    /\ group[g].st = "Building"
    /\ group' = [group EXCEPT ![g].st = "Moved", ![g].by = "enable"]
    /\ \/ /\ fixed' = [fixed EXCEPT ![g] = FixedFrom(g, "enable")]
          /\ kernel' = Switched(Range(group[g].members), TRUE)
          /\ ret' = OkUnit
       \/ /\ kernel' = Released(Range(group[g].members))
          /\ ret' = IoErr
          /\ UNCHANGED fixed
    /\ UNCHANGED <<cfgs, nextFd, nextId, clock, counter, guards, torn>>
    /\ UNCHANGED <<applied, beyondPerf>>

counter_group_stat(g) ==
    /\ ~torn
    /\ group[g].st = "Building"
    /\ \/ ret' = OkStat("counter_group_stat", g, 0, StatOf(group[g].members))
       \/ ret' = IoErr
    /\ UNCHANGED <<cfgs, kernel, nextFd, nextId, clock, counter, group, fixed, guards, torn>>
    /\ UNCHANGED <<applied, beyondPerf>>

\* into_fixed forwarding to enable(): the group comes back armed
counter_group_into_fixed_arming(g) ==
    /\ ~torn
    /\ group[g].st = "Building"
    /\ group' = [group EXCEPT ![g].st = "Moved", ![g].by = "into_fixed"]
    /\ \/ /\ fixed' = [fixed EXCEPT ![g] = FixedFrom(g, "into_fixed")]
          /\ kernel' = Switched(Range(group[g].members), TRUE)
          /\ ret' = OkUnit
       \/ /\ kernel' = Released(Range(group[g].members))
          /\ ret' = IoErr
          /\ UNCHANGED fixed
    /\ UNCHANGED <<cfgs, nextFd, nextId, clock, counter, guards, torn>>
    /\ UNCHANGED <<applied, beyondPerf>>

\* into_fixed takes the CounterGroup by value too, and arms nothing
counter_group_into_fixed(g) ==
    /\ ~torn
    /\ group[g].st = "Building"
    /\ group' = [group EXCEPT ![g].st = "Moved", ![g].by = "into_fixed"]
    /\ \/ /\ fixed' = [fixed EXCEPT ![g] = FixedFrom(g, "into_fixed")]
          /\ ret' = OkUnit
          /\ UNCHANGED kernel
       \/ /\ kernel' = Released(Range(group[g].members))
          /\ ret' = IoErr
          /\ UNCHANGED fixed
    /\ UNCHANGED <<cfgs, nextFd, nextId, clock, counter, guards, torn>>
    /\ UNCHANGED <<applied, beyondPerf>>

\* a Building group that goes out of scope without having been fixed
counter_group_drop(g) ==
    /\ ~torn
    /\ group[g].st = "Building"
    /\ group' = [group EXCEPT ![g].st = "Dropped"]
    /\ kernel' = Released(Range(group[g].members))
    /\ ret' = OkUnit
    /\ UNCHANGED <<cfgs, nextFd, nextId, clock, counter, fixed, guards, torn>>
    /\ UNCHANGED <<applied, beyondPerf>>

\* ------------------------------------------------------ fixed counter group
fixed_counter_group_enable(g) ==
    /\ ~torn
    /\ fixed[g].st = "Fixed"
    /\ \/ /\ kernel' = Switched(Range(fixed[g].members), TRUE)
          /\ fixed' = [fixed EXCEPT ![g].enables = 1]
          /\ ret' = OkUnit
       \/ /\ ret' = IoErr
          /\ UNCHANGED <<kernel, fixed>>
    /\ UNCHANGED <<cfgs, nextFd, nextId, clock, counter, group, guards, torn>>
    /\ UNCHANGED <<applied, beyondPerf>>

\* disable reaching the leader of the group only
fixed_counter_group_disable_leader_only(g) ==
    /\ ~torn
    /\ fixed[g].st = "Fixed"
    /\ \/ /\ kernel' = Switched({LeaderOf(fixed[g].members, 0)}, FALSE)
          /\ ret' = OkUnit
       \/ /\ ret' = IoErr
          /\ UNCHANGED kernel
    /\ UNCHANGED <<cfgs, nextFd, nextId, clock, counter, group, fixed, guards, torn>>
    /\ UNCHANGED <<applied, beyondPerf>>

fixed_counter_group_disable(g) ==
    /\ ~torn
    /\ fixed[g].st = "Fixed"
    /\ \/ /\ kernel' = Switched(Range(fixed[g].members), FALSE)
          /\ ret' = OkUnit
       \/ /\ ret' = IoErr
          /\ UNCHANGED kernel
    /\ UNCHANGED <<cfgs, nextFd, nextId, clock, counter, group, fixed, guards, torn>>
    /\ UNCHANGED <<applied, beyondPerf>>

fixed_counter_group_reset(g) ==
    /\ ~torn
    /\ fixed[g].st = "Fixed"
    /\ \/ /\ kernel' = Zeroed(Range(fixed[g].members))
          /\ ret' = OkUnit
       \/ /\ ret' = IoErr
          /\ UNCHANGED kernel
    /\ UNCHANGED <<cfgs, nextFd, nextId, clock, counter, group, fixed, guards, torn>>
    /\ UNCHANGED <<applied, beyondPerf>>

fixed_counter_group_stat(g) ==
    /\ ~torn
    /\ fixed[g].st = "Fixed"
    /\ \/ ret' = OkStat("fixed_counter_group_stat", g, 0, StatOf(fixed[g].members))
       \/ ret' = IoErr
    /\ UNCHANGED <<cfgs, kernel, nextFd, nextId, clock, counter, group, fixed, guards, torn>>
    /\ UNCHANGED <<applied, beyondPerf>>

\* the FixedCounterGroup goes out of scope, or the guest closes its handle
fixed_counter_group_close(g) ==
    /\ ~torn
    /\ fixed[g].st \in {"Fixed", "Closed"}
    /\ IF fixed[g].st = "Fixed"
       THEN /\ kernel' = Released(Range(fixed[g].members))
            /\ fixed' = [fixed EXCEPT ![g].st = "Closed"]
       ELSE UNCHANGED <<kernel, fixed>>
    /\ ret' = OkUnit
    /\ UNCHANGED <<cfgs, nextFd, nextId, clock, counter, group, guards, torn>>
    /\ UNCHANGED <<applied, beyondPerf>>

\* ------------------------------------------------------------ counter guard
counter_guard_event_id(k) ==
    /\ ~torn
    /\ k \in DOMAIN guards
    /\ ret' = OkId("counter_guard_event_id", guards[k].group, k, guards[k].id)
    /\ UNCHANGED <<cfgs, kernel, nextFd, nextId, clock, counter, group, fixed, guards, torn>>
    /\ UNCHANGED <<applied, beyondPerf>>

\* the group a guard belongs to still holds its descriptors
GuardLive(k) == \/ group[guards[k].group].st = "Building"
                \/ fixed[guards[k].group].st = "Fixed"

\* the guard's own entry of the group's stat, found by its event_id
GuardEntry(k, s) == CHOOSE e \in Range(s) : e.event_id = guards[k].id

counter_guard_stat(k) ==
    /\ ~torn
    /\ k \in DOMAIN guards
    /\ \/ /\ GuardLive(k)
          /\ LET s == IF group[guards[k].group].st = "Building"
                      THEN StatOf(group[guards[k].group].members)
                      ELSE StatOf(fixed[guards[k].group].members)
             IN ret' = OkStat("counter_guard_stat", guards[k].group, k, <<GuardEntry(k, s)>>)
       \/ ret' = IoErr
    /\ UNCHANGED <<cfgs, kernel, nextFd, nextId, clock, counter, group, fixed, guards, torn>>
    /\ UNCHANGED <<applied, beyondPerf>>

\* ------------------------------------------------- the kernel, and teardown
\* the scheduling units that can be on the PMU: the leaders of enabled events
Schedulable == {kernel[fd].leader : fd \in {f \in Fds : kernel[f].st = "open" /\ kernel[f].on}}

KernelTick(run) ==
    /\ clock < MaxTime
    /\ clock' = clock + 1
    /\ kernel' = [fd \in Fds |-> TickEvent(kernel[fd], run)]
    /\ UNCHANGED <<cfgs, nextFd, nextId, counter, group, fixed, guards, torn, ret>>
    /\ UNCHANGED <<applied, beyondPerf>>

\* the guest instance is torn down: everything it still holds is dropped
Teardown ==
    /\ ~torn
    /\ torn' = TRUE
    /\ kernel' = Released(Fds)
    /\ counter' = [c \in Counters |-> IF counter[c].st = "Active"
                                      THEN [counter[c] EXCEPT !.st = "Closed"] ELSE counter[c]]
    /\ group' = [g \in Groups |-> IF group[g].st = "Building"
                                  THEN [group[g] EXCEPT !.st = "Dropped"] ELSE group[g]]
    /\ fixed' = [g \in Groups |-> IF fixed[g].st = "Fixed"
                                  THEN [fixed[g] EXCEPT !.st = "Closed"] ELSE fixed[g]]
    /\ ret' = OkUnit
    /\ UNCHANGED <<cfgs, nextFd, nextId, clock, guards>>
    /\ UNCHANGED <<applied, beyondPerf>>

\* ============================================================ export bridge
\* Strings are sequences of bytes, so that a length is a number of bytes.
S_instance_id == <<105, 110, 115, 116, 97, 110, 99, 101, 95, 105, 100>>   \* "instance_id"
S_unknown == <<117, 110, 107, 110, 111, 119, 110>>                        \* "unknown"
S_value == <<118, 97, 108, 117, 101>>                                     \* "value"
S_k == <<107>>                                                            \* "k"
S_v == <<118>>                                                            \* "v"
S_f == <<102>>                                                            \* "f"
S_m == <<109>>                                                            \* "m"
S_i1 == <<105, 49>>       \* "i1": the instance id the transport knows

\* what the guest may pass
ByteVecs == {<<>>, <<1>>, <<1, 2>>}
TagLists == {<<>>, <<<<S_k, S_v>>>>, <<<<S_instance_id, S_v>>>>}
Samples == [name : {S_m}, value : {7}, tags : TagLists, ts : {<<>>, <<5>>}]
Points == [name : {S_m}, tags : TagLists, fields : {<<<<S_f, 3>>>>}]

\* Option::unwrap_or
UnwrapOr(opt, d) == IF opt = <<>> THEN d ELSE opt[1]

\* the last index of key k in a list of (key, value) pairs
LastIndex(pairs, k) ==
    CHOOSE i \in DOMAIN pairs :
        /\ pairs[i][1] = k
        /\ \A j \in DOMAIN pairs : pairs[j][1] = k => j <= i

\* the map a list of (key, value) pairs collects into: a later pair replaces an
\* earlier one of the same key
Collect(pairs) ==
    [k \in {pairs[i][1] : i \in DOMAIN pairs} |-> pairs[LastIndex(pairs, k)][2]]

\* a number as decimal digits
RECURSIVE Digits(_)
Digits(n) == IF n < 10 THEN <<48 + n>> ELSE Digits(n \div 10) \o <<48 + (n % 10)>>

\* the keys in the order the line is written in
KeyOrder == <<S_f, S_instance_id, S_k, S_value>>

\* ",key=value" for every tag of the set
RECURSIVE EncodeTags(_, _)
EncodeTags(tagset, i) ==
    IF i > Len(KeyOrder) THEN <<>>
    ELSE (IF KeyOrder[i] \in DOMAIN tagset
          THEN <<44>> \o KeyOrder[i] \o <<61>> \o tagset[KeyOrder[i]]
          ELSE <<>>) \o EncodeTags(tagset, i + 1)

\* "key=value" for every field of the set, with commas between
RECURSIVE EncodeFields(_, _, _)
EncodeFields(fieldset, i, first) ==
    IF i > Len(KeyOrder) THEN <<>>
    ELSE IF KeyOrder[i] \in DOMAIN fieldset
         THEN (IF first THEN <<>> ELSE <<44>>)
                  \o KeyOrder[i] \o <<61>> \o Digits(fieldset[KeyOrder[i]])
                  \o EncodeFields(fieldset, i + 1, FALSE)
         ELSE EncodeFields(fieldset, i + 1, first)

\* LineBuilder::new(name) with its tags and fields inserted, built and written
\* out: measurement,tags fields
LineBytes(name, tags, fields) ==
    name \o EncodeTags(Collect(tags), 1) \o <<32>> \o EncodeFields(Collect(fields), 1, TRUE)

\* rpc_client.instance_id().unwrap_or_else(|_| "unknown")
InstanceId(idres) == IF idres = "ok" THEN S_i1 ELSE S_unknown

\* the results of an export call, outer and inner
XOkOk(op) == [op |-> op, outer |-> "Ok", inner |-> "Ok"]
XTrap(op) == [op |-> op, outer |-> "Err", inner |-> "none"]

\* the export context the host builds: with a transport or without
ExportCtx(clients) ==
    /\ rpc_client \in clients
    /\ sent = <<>>
    /\ calls = 0
    /\ xret = [op |-> "none", outer |-> "Ok", inner |-> "Ok"]
    /\ xguest = "running"

\* the end of an export call once the request is built: Runtime::new()? and
\* send_data(req)? return early with the outer error, which traps the guest;
\* the request is handed to the transport unless there is no runtime to do it
SendOrTrap(op, req, out) ==
    /\ sent' = IF out = "runtime_err" THEN sent ELSE Append(sent, req)
    /\ IF out = "sent"
       THEN /\ xret' = XOkOk(op)
            /\ xguest' = xguest
       ELSE /\ xret' = XTrap(op)
            /\ xguest' = "trapped"

Outcomes == {"sent", "runtime_err", "send_err"}

\* export_bytes without the early return for a missing transport
export_bytes_unguarded(bytes, out) ==
    /\ xguest = "running"
    /\ calls < MaxCalls
    /\ calls' = calls + 1
    /\ LET metadata == [type |-> "file", size |-> Len(bytes), metric_meta |-> <<>>]
           req == [metadata |-> metadata, payload |-> bytes]
       IN SendOrTrap("export_bytes", req, out)
    /\ UNCHANGED rpc_client
    /\ UNCHANGED beyondExport

export_bytes(bytes, out) ==
    /\ xguest = "running"
    /\ calls < MaxCalls
    /\ calls' = calls + 1
    /\ IF rpc_client = "None"
       THEN /\ xret' = XOkOk("export_bytes")
            /\ UNCHANGED <<sent, xguest>>
       ELSE LET metadata == [type |-> "file", size |-> Len(bytes), metric_meta |-> <<>>]
                req == [metadata |-> metadata, payload |-> bytes]
            IN SendOrTrap("export_bytes", req, out)
    /\ UNCHANGED rpc_client
    /\ UNCHANGED beyondExport

\* export_sample taking the size of the line as it is before the tags are written
export_sample_stale_size(sample, idres, out) ==
    /\ xguest = "running"
    /\ calls < MaxCalls
    /\ calls' = calls + 1
    /\ IF rpc_client = "None"
       THEN /\ xret' = XOkOk("export_sample")
            /\ UNCHANGED <<sent, xguest>>
       ELSE LET tags == Append(sample.tags, <<S_instance_id, InstanceId(idres)>>)
                payload == LineBytes(sample.name, tags, <<<<S_value, sample.value>>>>)
                metadata == [type |-> "metric",
                             size |-> Len(LineBytes(sample.name, <<>>,
                                                    <<<<S_value, sample.value>>>>)),
                             metric_meta |-> <<[start_time |-> UnwrapOr(sample.ts, 0),
                                                end_time |-> UnwrapOr(sample.ts, 0),
                                                key_type |-> Collect(
                                                    [i \in DOMAIN tags |->
                                                        <<tags[i][1], "String">>])]>>]
                req == [metadata |-> metadata, payload |-> payload]
            IN SendOrTrap("export_sample", req, out)
    /\ UNCHANGED rpc_client
    /\ UNCHANGED beyondExport

\* export_sample typing the caller's tags only, as they were before the push
export_sample_caller_keys(sample, idres, out) ==
    /\ xguest = "running"
    /\ calls < MaxCalls
    /\ calls' = calls + 1
    /\ IF rpc_client = "None"
       THEN /\ xret' = XOkOk("export_sample")
            /\ UNCHANGED <<sent, xguest>>
       ELSE LET tags == Append(sample.tags, <<S_instance_id, InstanceId(idres)>>)
                payload == LineBytes(sample.name, tags, <<<<S_value, sample.value>>>>)
                metadata == [type |-> "metric", size |-> Len(payload),
                             metric_meta |-> <<[start_time |-> UnwrapOr(sample.ts, 0),
                                                end_time |-> UnwrapOr(sample.ts, 0),
                                                key_type |-> Collect(
                                                    [i \in DOMAIN sample.tags |->
                                                        <<sample.tags[i][1], "String">>])]>>]
                req == [metadata |-> metadata, payload |-> payload]
            IN SendOrTrap("export_sample", req, out)
    /\ UNCHANGED rpc_client
    /\ UNCHANGED beyondExport

export_sample(sample, idres, out) ==
    /\ xguest = "running"
    /\ calls < MaxCalls
    /\ calls' = calls + 1
    /\ IF rpc_client = "None"
       THEN /\ xret' = XOkOk("export_sample")
            /\ UNCHANGED <<sent, xguest>>
       ELSE LET tags == Append(sample.tags, <<S_instance_id, InstanceId(idres)>>)
                payload == LineBytes(sample.name, tags, <<<<S_value, sample.value>>>>)
                metadata == [type |-> "metric", size |-> Len(payload),
                             metric_meta |-> <<[start_time |-> UnwrapOr(sample.ts, 0),
                                                end_time |-> UnwrapOr(sample.ts, 0),
                                                key_type |-> Collect(
                                                    [i \in DOMAIN tags |->
                                                        <<tags[i][1], "String">>])]>>]
                req == [metadata |-> metadata, payload |-> payload]
            IN SendOrTrap("export_sample", req, out)
    /\ UNCHANGED rpc_client
    /\ UNCHANGED beyondExport

export_point(point, idres, out) ==
    /\ xguest = "running"
    /\ calls < MaxCalls
    /\ calls' = calls + 1
    /\ IF rpc_client = "None"
       THEN /\ xret' = XOkOk("export_point")
            /\ UNCHANGED <<sent, xguest>>
       ELSE LET tags == Append(point.tags, <<S_instance_id, InstanceId(idres)>>)
                payload == LineBytes(point.name, tags, point.fields)
                metadata == [type |-> "measurement", size |-> Len(payload),
                             metric_meta |-> <<>>]
                req == [metadata |-> metadata, payload |-> payload]
            IN SendOrTrap("export_point", req, out)
    /\ UNCHANGED rpc_client
    /\ UNCHANGED beyondExport

ExportNext ==
    \/ \E bytes \in ByteVecs, out \in Outcomes : export_bytes(bytes, out)
    \/ \E sample \in Samples, idres \in {"ok", "err"}, out \in Outcomes :
          export_sample(sample, idres, out)
    \/ \E point \in Points, idres \in {"ok", "err"}, out \in Outcomes :
          export_point(point, idres, out)

\* =========================================================== sandbox host
Domains == {"perf", "system"}
Archs == {"x86_64", "aarch64", "riscv64"}

\* the domains a sandbox configuration grants
Granted == {d \in Domains : engine[d]}

\* PshEngineBuilder::new(): nothing granted; the component and the host's
\* architecture are what the run is given
Sandbox(components, archs) ==
    /\ engine = [d \in Domains |-> FALSE]
    /\ phase = "builder"
    /\ imports \in components
    /\ arch \in archs
    /\ runres = "none"
    /\ gsteps = 0
    /\ hcalls = 0
    /\ hret = [fn |-> "none", levels |-> 0, outcome |-> "none"]

allow_perf_op(b) ==
    /\ phase = "builder"
    /\ engine' = [engine EXCEPT !["perf"] = b]
    /\ UNCHANGED <<phase, imports, arch, runres, gsteps, hcalls, hret>>
    /\ UNCHANGED beyondHost

\* allow_system_op setting every domain's flag, not its own alone
allow_system_op_granting_all(b) ==
    /\ phase = "builder"
    /\ engine' = [d \in Domains |-> b]
    /\ UNCHANGED <<phase, imports, arch, runres, gsteps, hcalls, hret>>
    /\ UNCHANGED beyondHost

allow_system_op(b) ==
    /\ phase = "builder"
    /\ engine' = [engine EXCEPT !["system"] = b]
    /\ UNCHANGED <<phase, imports, arch, runres, gsteps, hcalls, hret>>
    /\ UNCHANGED beyondHost

build ==
    /\ phase = "builder"
    /\ phase' = "built"
    /\ UNCHANGED <<engine, imports, arch, runres, gsteps, hcalls, hret>>
    /\ UNCHANGED beyondHost

\* run linking the component without looking at what was granted
run_instantiate_unchecked ==
    /\ phase = "built"
    /\ phase' = "instantiated"
    /\ UNCHANGED <<engine, imports, arch, runres, gsteps, hcalls, hret>>
    /\ UNCHANGED beyondHost

\* run, up to the instantiation: the component's imports are resolved against
\* the granted domains, and an import of a withheld domain ends the run
run_instantiate ==
    /\ phase = "built"
    /\ IF imports \subseteq Granted
       THEN /\ phase' = "instantiated"
            /\ UNCHANGED runres
       ELSE /\ phase' = "failed"
            /\ runres' = "ImportResolutionError"
    /\ UNCHANGED <<engine, imports, arch, gsteps, hcalls, hret>>
    /\ UNCHANGED beyondHost

\* the guest's entry point runs
Executing == phase \in {"instantiated", "running"}
Budget == gsteps + hcalls < MaxSteps

guest_step ==
    /\ Executing /\ Budget
    /\ phase' = "running"
    /\ gsteps' = gsteps + 1
    /\ UNCHANGED <<engine, imports, arch, runres, hcalls, hret>>
    /\ UNCHANGED beyondHost

guest_finish ==
    /\ phase = "running"
    /\ phase' = "finished"
    /\ runres' = "Ok"
    /\ UNCHANGED <<engine, imports, arch, gsteps, hcalls, hret>>
    /\ UNCHANGED beyondHost

\* how a host call ends for the guest: an outer error is a trap, a panic of the
\* host function takes the run down, anything else returns to the guest
AfterCall(outcome) ==
    /\ phase' = CASE outcome = "outer_err" -> "trapped"
                  [] outcome = "panic" -> "panicked"
                  [] OTHER -> "running"
    /\ runres' = IF outcome = "outer_err" THEN "Trap" ELSE runres
    /\ hcalls' = hcalls + 1
    /\ gsteps' = gsteps

CanCall(domain) == /\ phase = "running"
                   /\ Budget
                   /\ domain \in imports

\* do_parse_cpuinfo: File::open(path)? and then the parser of the architecture
do_parse_cpuinfo(opened) ==
    IF ~opened THEN "Err"
    ELSE CASE arch = "x86_64" -> "X86_64"
           [] arch = "aarch64" -> "Arm64"
           [] OTHER -> "Unsupported"

\* get_cpu_info: parse_cpuinfo!().unwrap(), then Ok(res)
get_cpu_info(opened) ==
    /\ CanCall("system")
    /\ LET cpu_info == do_parse_cpuinfo(opened)
           outcome == CASE cpu_info = "Err" -> "panic"
                        [] cpu_info = "Unsupported" -> "inner_err"
                        [] OTHER -> "ok"
       IN /\ hret' = [fn |-> "get_cpu_info", levels |-> 2, outcome |-> outcome]
          /\ AfterCall(outcome)
    /\ UNCHANGED <<engine, imports, arch>>
    /\ UNCHANGED beyondHost

\* get_memory_info: parse_meminfo!().unwrap(), then Ok(Ok(..))
get_memory_info(parsed) ==
    /\ CanCall("system")
    /\ LET outcome == IF parsed THEN "ok" ELSE "panic"
       IN /\ hret' = [fn |-> "get_memory_info", levels |-> 2, outcome |-> outcome]
          /\ AfterCall(outcome)
    /\ UNCHANGED <<engine, imports, arch>>
    /\ UNCHANGED beyondHost

\* os_version: wasmtime::Result<Option<String>>, the error mapped to the outer one
os_version(parsed) ==
    /\ CanCall("system")
    /\ LET outcome == IF parsed THEN "ok" ELSE "outer_err"
       IN /\ hret' = [fn |-> "os_version", levels |-> 1, outcome |-> outcome]
          /\ AfterCall(outcome)
    /\ UNCHANGED <<engine, imports, arch>>
    /\ UNCHANGED beyondHost

\* kernel_version: wasmtime::Result<String>, the error mapped to the outer one
kernel_version(got) ==
    /\ CanCall("system")
    /\ LET outcome == IF got THEN "ok" ELSE "outer_err"
       IN /\ hret' = [fn |-> "kernel_version", levels |-> 1, outcome |-> outcome]
          /\ AfterCall(outcome)
    /\ UNCHANGED <<engine, imports, arch>>
    /\ UNCHANGED beyondHost

\* a call of a function of the performance domain (the counters above)
perf_call ==
    /\ CanCall("perf")
    /\ hret' = [fn |-> "perf", levels |-> 2, outcome |-> "ok"]
    /\ AfterCall("ok")
    /\ UNCHANGED <<engine, imports, arch>>
    /\ UNCHANGED beyondHost

HostNext ==
    \/ \E b \in BOOLEAN : allow_perf_op(b)
    \/ \E b \in BOOLEAN : allow_system_op(b)
    \/ build
    \/ run_instantiate
    \/ guest_step
    \/ guest_finish
    \/ \E opened \in BOOLEAN : get_cpu_info(opened)
    \/ \E parsed \in BOOLEAN : get_memory_info(parsed)
    \/ \E parsed \in BOOLEAN : os_version(parsed)
    \/ \E got \in BOOLEAN : kernel_version(got)
    \/ perf_call

\* ========================================================== /proc/cpuinfo
MaxLines == 3        \* lines of a cpuinfo file

\* A line is held the way the parsers look at it: <<>> is the empty line,
\* <<key, value>> a line with a ':' after split_once(':') and trim() of both
\* halves, <<text>> a line without a ':', and ReadError a line that
\* BufRead::lines() cannot decode.  A value is a sequence of characters.
ReadError == <<"read error", <<>>, "Err">>

CpuinfoLines ==
    { <<>>,
      <<"processor", <<"0">>>>,
      <<"processor", <<"1">>>>,
      <<"CPU implementer", <<"0", "x", "4", "1">>>>,
      <<"CPU variant", <<"0", "x", "g">>>>,
      <<"CPU part", <<"0", "x", "d", "4", "9">>>>,
      <<"CPU part", <<"0", "x", "0", "x", "4", "1">>>>,
      <<"CPU part", <<"0", "x", "1", "0", "0", "0", "0">>>>,
      <<"CPU part", <<"+", "D", "4", "9">>>>,
      <<"Hardware">>,
      ReadError }

CpuinfoFiles == UNION {[1..n -> CpuinfoLines] : n \in 0..MaxLines}

\* char::to_digit(16)
HexDigit == [c \in {"0", "1", "2", "3", "4", "5", "6", "7", "8", "9",
                    "a", "b", "c", "d", "e", "f", "A", "B", "C", "D", "E", "F"} |->
                CASE c = "0" -> 0 [] c = "1" -> 1 [] c = "2" -> 2 [] c = "3" -> 3
                  [] c = "4" -> 4 [] c = "5" -> 5 [] c = "6" -> 6 [] c = "7" -> 7
                  [] c = "8" -> 8 [] c = "9" -> 9
                  [] c \in {"a", "A"} -> 10 [] c \in {"b", "B"} -> 11
                  [] c \in {"c", "C"} -> 12 [] c \in {"d", "D"} -> 13
                  [] c \in {"e", "E"} -> 14 [] c \in {"f", "F"} -> 15]

\* the digit a character stands for in the radix, or -1
ToDigit(c, radix) ==
    IF c \in DOMAIN HexDigit /\ HexDigit[c] < radix THEN HexDigit[c] ELSE -1

\* the digits of s from the left, with checked multiplication and addition:
\* <<n>>, or <<>> for a character that is no digit or a value above max
RECURSIVE Accumulate(_, _, _, _)
Accumulate(s, radix, max, acc) ==
    IF s = <<>> THEN <<acc>>
    ELSE LET d == ToDigit(Head(s), radix)
         IN IF d < 0 \/ acc * radix + d > max THEN <<>>
            ELSE Accumulate(Tail(s), radix, max, acc * radix + d)

\* from_str_radix reading the digits in base 10 whatever radix it is given
from_str_radix_decimal(s, radix, max) ==
    LET digits == IF s # <<>> /\ Head(s) = "+" THEN Tail(s) ELSE s
    IN IF digits = <<>> THEN <<>> ELSE Accumulate(digits, 10, max, 0)

\* from_str_radix of an unsigned type with maximum max (and str::parse, with
\* radix 10): an optional '+', then one digit of the radix or more
from_str_radix(s, radix, max) ==
    LET digits == IF s # <<>> /\ Head(s) = "+" THEN Tail(s) ELSE s
    IN IF digits = <<>> THEN <<>> ELSE Accumulate(digits, radix, max, 0)

\* value.trim_start_matches("0x"): the prefix is taken off for as long as it is there
RECURSIVE trim_start_matches_0x(_)
trim_start_matches_0x(s) ==
    IF Len(s) >= 2 /\ s[1] = "0" /\ s[2] = "x"
    THEN trim_start_matches_0x(SubSeq(s, 3, Len(s)))
    ELSE s

U16Max == 2^16 - 1
\* the largest number held here; usize::MAX lies above it
UsizeMax == 2147483647

\* u16::from_str_radix(value.trim_start_matches("0x"), 16).unwrap_or(0)
ParseHex16(value) == UnwrapOr(from_str_radix(trim_start_matches_0x(value), 16, U16Max), 0)

\* value.parse().unwrap_or(0) into a usize
ParseUsize(value) == UnwrapOr(from_str_radix(value, 10, UsizeMax), 0)

\* X86_64CpuInfo::new() and Arm64CpuInfo::new(), with the fields followed here
NewX86_64CpuInfo == [processor |-> 0]
NewArm64CpuInfo == [processor |-> 0, cpu_implementer |-> 0, cpu_variant |-> 0, cpu_part |-> 0]

\* the lines up to the first one that cannot be read: map_while(Result::ok)
RECURSIVE Readable(_)
Readable(lines) ==
    IF lines = <<>> \/ Head(lines) = ReadError THEN <<>>
    ELSE <<Head(lines)>> \o Readable(Tail(lines))

\* the match of parse_x86_64_cpu_info on one line with a ':'
X86_64Field(cur, key, value) ==
    IF key = "processor" THEN [cur EXCEPT !.processor = ParseUsize(value)] ELSE cur

\* the match of parse_aarch64_cpu_info on one line with a ':'
Arm64Field(cur, key, value) ==
    CASE key = "processor" -> [cur EXCEPT !.processor = ParseUsize(value)]
      [] key = "CPU implementer" -> [cur EXCEPT !.cpu_implementer = ParseHex16(value)]
      [] key = "CPU variant" -> [cur EXCEPT !.cpu_variant = ParseHex16(value)]
      [] key = "CPU part" -> [cur EXCEPT !.cpu_part = ParseHex16(value)]
      [] OTHER -> cur

\* the loop pushing what is being filled at the end of the file as well
RECURSIVE ParseLoop_flushing(_, _, _, _, _)
ParseLoop_flushing(lines, i, list, cur, a) ==
    IF i > Len(lines) THEN Append(list, cur)
    ELSE IF lines[i] = <<>>
         THEN ParseLoop_flushing(lines, i + 1, Append(list, cur),
                        IF a = "x86_64" THEN NewX86_64CpuInfo ELSE NewArm64CpuInfo, a)
         ELSE IF Len(lines[i]) = 2
              THEN ParseLoop_flushing(lines, i + 1, list,
                             IF a = "x86_64" THEN X86_64Field(cur, lines[i][1], lines[i][2])
                             ELSE Arm64Field(cur, lines[i][1], lines[i][2]), a)
              ELSE ParseLoop_flushing(lines, i + 1, list, cur, a)

\* the loop of the parsers from line i on: an empty line pushes the entry being
\* filled and starts a new one; what is being filled at the end is not pushed
RECURSIVE ParseLoop(_, _, _, _, _)
ParseLoop(lines, i, list, cur, a) ==
    IF i > Len(lines) THEN list
    ELSE IF lines[i] = <<>>
         THEN ParseLoop(lines, i + 1, Append(list, cur),
                        IF a = "x86_64" THEN NewX86_64CpuInfo ELSE NewArm64CpuInfo, a)
         ELSE IF Len(lines[i]) = 2
              THEN ParseLoop(lines, i + 1, list,
                             IF a = "x86_64" THEN X86_64Field(cur, lines[i][1], lines[i][2])
                             ELSE Arm64Field(cur, lines[i][1], lines[i][2]), a)
              ELSE ParseLoop(lines, i + 1, list, cur, a)

parse_x86_64_cpu_info(lines) == ParseLoop(Readable(lines), 1, <<>>, NewX86_64CpuInfo, "x86_64")

parse_aarch64_cpu_info(lines) == ParseLoop(Readable(lines), 1, <<>>, NewArm64CpuInfo, "aarch64")

NoCpuInfo == [variant |-> "none", list |-> <<>>, text |-> <<>>]
NoCpuRes == [outer |-> "none", inner |-> "none", list |-> <<>>, text |-> <<>>]

\* format!("unsupported architecture {}", arch): the pieces of the string
UnsupportedText(a) == <<"unsupported architecture ", a>>

\* the cpuinfo file there is to read, not read yet
Cpuinfo(opens, files) ==
    /\ proc_cpuinfo \in [opened : opens, lines : files]
    /\ parsed_info = NoCpuInfo
    /\ cpu_res = NoCpuRes

\* parse_cpuinfo!(path, arch), that is do_parse_cpuinfo(path, arch)
parse_cpuinfo(a) ==
    /\ parsed_info.variant = "none"
    /\ parsed_info' =
          IF ~proc_cpuinfo.opened THEN [variant |-> "Err", list |-> <<>>, text |-> <<>>]
          ELSE CASE a = "x86_64" ->
                      [variant |-> "X86_64", text |-> <<>>,
                       list |-> parse_x86_64_cpu_info(proc_cpuinfo.lines)]
                 [] a = "aarch64" ->
                      [variant |-> "Arm64", text |-> <<>>,
                       list |-> parse_aarch64_cpu_info(proc_cpuinfo.lines)]
                 [] OTHER -> [variant |-> "Unsupported", list |-> <<>>,
                              text |-> UnsupportedText(a)]
    /\ UNCHANGED <<proc_cpuinfo, cpu_res>>
    /\ UNCHANGED beyondCpu

\* n as u32, for a usize n: the numbers held here are below 2^31, which the
\* cast keeps
AsU32(n) == n

\* From<Arm64CpuInfo> and From<X86_64CpuInfo> for the guest's records: the
\* processor index cast, the other fields copied
CpuInfoInto(e) == [e EXCEPT !.processor = AsU32(@)]

\* get_cpu_info handing Unsupported to the guest as the outer error
cpu_info_into_trapping ==
    /\ parsed_info.variant # "none"
    /\ cpu_res.outer = "none"
    /\ cpu_res' =
          CASE parsed_info.variant = "Err" ->
                  [outer |-> "panic", inner |-> "none", list |-> <<>>, text |-> <<>>]
            [] parsed_info.variant = "Unsupported" ->
                  [outer |-> "Err", inner |-> "none", list |-> <<>>, text |-> parsed_info.text]
            [] OTHER -> [outer |-> "Ok", inner |-> parsed_info.variant, text |-> <<>>,
                         list |-> [i \in DOMAIN parsed_info.list |->
                                      CpuInfoInto(parsed_info.list[i])]]
    /\ UNCHANGED <<proc_cpuinfo, parsed_info>>
    /\ UNCHANGED beyondCpu

\* the rest of get_cpu_info: unwrap() of what was parsed, the entries turned
\* into the guest's, Unsupported turned into the inner error
cpu_info_into ==
    /\ parsed_info.variant # "none"
    /\ cpu_res.outer = "none"
    /\ cpu_res' =
          CASE parsed_info.variant = "Err" ->
                  [outer |-> "panic", inner |-> "none", list |-> <<>>, text |-> <<>>]
            [] parsed_info.variant = "Unsupported" ->
                  [outer |-> "Ok", inner |-> "Err", list |-> <<>>, text |-> parsed_info.text]
            [] OTHER -> [outer |-> "Ok", inner |-> parsed_info.variant, text |-> <<>>,
                         list |-> [i \in DOMAIN parsed_info.list |->
                                      CpuInfoInto(parsed_info.list[i])]]
    /\ UNCHANGED <<proc_cpuinfo, parsed_info>>
    /\ UNCHANGED beyondCpu

CpuinfoNext ==
    \/ \E a \in Archs : parse_cpuinfo(a)
    \/ cpu_info_into

\* ============================================================ cache size
\* A u32 is held as its digits in base 256, the lowest first and no zero at the
\* top, so that a product beyond 32 bits can be told from one within.
U32Digits == 4

\* the digits of a small number
RECURSIVE Digits256(_)
Digits256(c) == IF c = 0 THEN <<>> ELSE <<c % 256>> \o Digits256(c \div 256)

\* n * m + c, exactly, for m above 0
RECURSIVE MulAdd(_, _, _)
MulAdd(n, m, c) ==
    IF n = <<>> THEN Digits256(c)
    ELSE <<(n[1] * m + c) % 256>> \o MulAdd(Tail(n), m, (n[1] * m + c) \div 256)

\* the low 32 bits of n
RECURSIVE WithoutTopZeros(_)
WithoutTopZeros(n) ==
    IF n # <<>> /\ n[Len(n)] = 0 THEN WithoutTopZeros(SubSeq(n, 1, Len(n) - 1)) ELSE n

Wrapped32(n) == WithoutTopZeros(SubSeq(n, 1, U32Digits))

\* str::trim(): the blanks at both ends taken off
RECURSIVE Trim(_)
Trim(s) ==
    IF s # <<>> /\ s[1] = " " THEN Trim(Tail(s))
    ELSE IF s # <<>> /\ s[Len(s)] = " " THEN Trim(SubSeq(s, 1, Len(s) - 1))
    ELSE s

\* value.split_once(' '): what stands before the first blank and what after it
SplitOnce(s) ==
    IF \E i \in DOMAIN s : s[i] = " "
    THEN LET i == CHOOSE j \in DOMAIN s : s[j] = " " /\ \A k \in 1..(j - 1) : s[k] # " "
         IN <<[num |-> SubSeq(s, 1, i - 1), unit |-> SubSeq(s, i + 1, Len(s))]>>
    ELSE <<>>

\* the digits of s from the left into a u32, with checked arithmetic
RECURSIVE AccumulateU32(_, _)
AccumulateU32(s, acc) ==
    IF s = <<>> THEN <<acc>>
    ELSE LET d == ToDigit(Head(s), 10)
         IN IF d < 0 \/ Len(MulAdd(acc, 10, d)) > U32Digits THEN <<>>
            ELSE AccumulateU32(Tail(s), MulAdd(acc, 10, d))

\* str::parse::<u32>(): an optional '+', then one decimal digit or more
parse_u32(s) ==
    LET digits == IF s # <<>> /\ Head(s) = "+" THEN Tail(s) ELSE s
    IN IF digits = <<>> THEN <<>> ELSE AccumulateU32(digits, <<>>)

parse_unit(unit) ==
    CASE Trim(unit) = <<"B">> -> 1
      [] Trim(unit) = <<"K", "B">> -> 1024
      [] Trim(unit) = <<"M", "B">> -> 1024 * 1024
      [] OTHER -> 0

\* num * unit in u32: a product beyond 32 bits panics in a build with overflow
\* checks and is cut to its low 32 bits in one without
MulU32(num, unit, overflow_checks) ==
    IF unit = 0 THEN [res |-> "Ok", size |-> <<>>]
    ELSE IF Len(MulAdd(num, unit, 0)) <= U32Digits
         THEN [res |-> "Ok", size |-> MulAdd(num, unit, 0)]
         ELSE IF overflow_checks
              THEN [res |-> "panic", size |-> <<>>]
              ELSE [res |-> "Ok", size |-> Wrapped32(MulAdd(num, unit, 0))]

parse_cache_size(value, overflow_checks) ==
    IF SplitOnce(value) = <<>> THEN [res |-> "Ok", size |-> <<>>]
    ELSE LET num == UnwrapOr(parse_u32(Trim(SplitOnce(value)[1].num)), <<>>)
             unit == parse_unit(SplitOnce(value)[1].unit)
         IN MulU32(num, unit, overflow_checks)

\* the numbers and the units of the lines looked at
CacheNums ==
    { <<>>, <<"x">>, <<"0">>, <<"1">>, <<"5", "1", "2">>,
      <<"3", "6", "6", "0", "8">>,
      <<"4", "0", "9", "5">>, <<"4", "0", "9", "6">>,
      <<"4", "1", "9", "4", "3", "0", "3">>, <<"4", "1", "9", "4", "3", "0", "4">>,
      <<"4", "2", "9", "4", "9", "6", "7", "2", "9", "5">>,
      <<"4", "2", "9", "4", "9", "6", "7", "2", "9", "6">> }
CacheUnits == {<<>>, <<"B">>, <<"K", "B">>, <<"M", "B">>, <<"G", "B">>, <<"K", "B", " ">>}

\* "<num> <unit>", "<num>  <unit>" and "<num><unit>"
CacheValues ==
    {n \o sep \o u : n \in CacheNums, sep \in {<<>>, <<" ">>, <<" ", " ">>}, u \in CacheUnits}

NoCacheSize == [res |-> "none", size |-> <<>>]

\* a "cache size" line there is to read, not read yet
CacheLine(values, builds) ==
    /\ cache_line \in [value : values, overflow_checks : builds]
    /\ cache_size = NoCacheSize

NoCacheLine == CacheLine({<<>>}, {FALSE})

\* "cache size" => current_cpu_info.cache_size = parse_cache_size(value), the
\* value being what stands after the ':', trimmed
cache_size_line ==
    /\ cache_size.res = "none"
    /\ cache_size' = parse_cache_size(Trim(cache_line.value), cache_line.overflow_checks)
    /\ UNCHANGED cache_line
    /\ UNCHANGED beyondCache

CacheNext == cache_size_line

\* ======================================================= process handles
MaxSpawn == 3        \* processes started in one run
MaxHandles == 3      \* handles minted in one run

PidOrder == <<1, 2>>          \* the pids there are, in the order of enumeration
Pids == Range(PidOrder)
Accessors == {"pid", "cmd"}   \* two of the per-process accessors

\* the result of a call on the process interface: `of' is the process (pid and
\* start marker) whose data the call returned
SysRet(fn, h, outcome, of) == [fn |-> fn, h |-> h, outcome |-> outcome, of |-> of]

\* a new SysCtx, in a system where nothing of interest runs yet
SysCtx ==
    /\ procs = [p \in Pids |-> 0]
    /\ spawned = 0
    /\ table = <<>>
    /\ pending = {}
    /\ sret = SysRet("none", 0, "none", <<>>)

\* the system starts a process under a pid that is free
os_spawn(p) ==
    /\ procs[p] = 0
    /\ spawned < MaxSpawn
    /\ spawned' = spawned + 1
    /\ procs' = [procs EXCEPT ![p] = spawned + 1]
    /\ UNCHANGED <<table, pending, sret>>
    /\ UNCHANGED beyondSys

\* a process exits; its pid is free again
os_exit(p) ==
    /\ procs[p] # 0
    /\ procs' = [procs EXCEPT ![p] = 0]
    /\ UNCHANGED <<spawned, table, pending, sret>>
    /\ UNCHANGED beyondSys

\* a host call starting while another one of the instance has not returned
host_call_reentrant(fn, h) ==
    /\ fn = "all" => (h = 0 /\ Len(table) + Len(PidOrder) <= MaxHandles)
    /\ fn \in Accessors => h \in DOMAIN table
    /\ [fn |-> fn, h |-> h] \notin pending
    /\ pending' = pending \cup {[fn |-> fn, h |-> h]}
    /\ UNCHANGED <<procs, spawned, table, sret>>
    /\ UNCHANGED beyondSys

\* the guest calls a host function: it can, when it is running, which it is not
\* while a host call of its own has not returned
host_call(fn, h) ==
    /\ pending = {}
    /\ fn = "all" => (h = 0 /\ Len(table) + Len(PidOrder) <= MaxHandles)
    /\ fn \in Accessors => h \in DOMAIN table
    /\ pending' = {[fn |-> fn, h |-> h]}
    /\ UNCHANGED <<procs, spawned, table, sret>>
    /\ UNCHANGED beyondSys

\* the pids that have a process, in the order of enumeration
LivePids == SelectSeq(PidOrder, LAMBDA p : procs[p] # 0)

\* all(): a handle is minted for every process there is, holding who it is
process_all ==
    /\ [fn |-> "all", h |-> 0] \in pending
    /\ pending' = pending \ {[fn |-> "all", h |-> 0]}
    /\ table' = table \o [i \in DOMAIN LivePids |->
                            [pid |-> LivePids[i], start |-> procs[LivePids[i]]]]
    /\ sret' = SysRet("all", 0, "ok", <<>>)
    /\ UNCHANGED <<procs, spawned>>
    /\ UNCHANGED beyondSys

\* an accessor that looks the process up by its pid alone
process_accessor_by_pid(fn, h) ==
    /\ [fn |-> fn, h |-> h] \in pending
    /\ fn \in Accessors
    /\ pending' = pending \ {[fn |-> fn, h |-> h]}
    /\ sret' = IF procs[table[h].pid] # 0
               THEN SysRet(fn, h, "ok", <<table[h].pid, procs[table[h].pid]>>)
               ELSE SysRet(fn, h, "NotFound", <<>>)
    /\ UNCHANGED <<procs, spawned, table>>
    /\ UNCHANGED beyondSys

\* an accessor: the process recorded in the handle is compared with the one that
\* has the pid now, and its data is returned only when they are the same
process_accessor(fn, h) ==
    /\ [fn |-> fn, h |-> h] \in pending
    /\ fn \in Accessors
    /\ pending' = pending \ {[fn |-> fn, h |-> h]}
    /\ sret' = IF procs[table[h].pid] = table[h].start
               THEN SysRet(fn, h, "ok", <<table[h].pid, procs[table[h].pid]>>)
               ELSE SysRet(fn, h, "NotFound", <<>>)
    /\ UNCHANGED <<procs, spawned, table>>
    /\ UNCHANGED beyondSys

SysNext ==
    \/ \E p \in Pids : os_spawn(p)
    \/ \E p \in Pids : os_exit(p)
    \/ \E fn \in Accessors \cup {"all"}, h \in 0..MaxHandles : host_call(fn, h)
    \/ process_all
    \/ \E fn \in Accessors, h \in 1..MaxHandles : process_accessor(fn, h)

\* ==================================================================== main
\* the component arguments a command line may give, and those a configuration
\* may hold; the first element of a vector is the component to run
CliArgs == {<<>>, <<"cli.wasm">>, <<"cli.wasm", "--cli">>}
ConfArgs == {<<>>, <<"conf.wasm">>, <<"conf.wasm", "--conf">>}

\* the program is started: with or without root privileges, with a command line
\* out of clis, and with a configuration in reach, the one of the file or, when
\* the file cannot be read, PshConfig::default()
Started(roots, clis, confs) ==
    /\ pc = "root"
    /\ root \in roots
    /\ args \in clis
    /\ psh_config \in confs
    /\ component_args = <<>>
    /\ hd = "none"
    /\ wasi_args = <<>>
    /\ component = "none"
    /\ exit_code = "none"
    /\ rt = "none"
    /\ task = "none"
    /\ cl = "none"
    /\ send_infos = 0
    /\ info_res = "none"
    /\ heartbeats = 0

AllClis == [systemd : BOOLEAN, daemon : BOOLEAN, component_args : CliArgs]
AllConfs == [from : {"file", "default"}, component_args : ConfArgs, otlp : BOOLEAN]

\* the check logging the error and going on
main_check_root_logging ==
    /\ pc = "root"
    /\ pc' = "args"
    /\ UNCHANGED <<root, args, psh_config, component_args, hd, wasi_args, component, exit_code>>
    /\ UNCHANGED bgVars
    /\ UNCHANGED beyondMain

\* if !check_root_privilege() { exit(1) }
main_check_root ==
    /\ pc = "root"
    /\ IF root
       THEN pc' = "args" /\ UNCHANGED exit_code
       ELSE pc' = "done" /\ exit_code' = "1"
    /\ UNCHANGED <<root, args, psh_config, component_args, hd, wasi_args, component>>
    /\ UNCHANGED bgVars
    /\ UNCHANGED beyondMain

\* Args::parse() and PshConfig::read_config(..).unwrap_or_else(default)
main_read_config ==
    /\ pc = "args"
    /\ pc' = "select"
    /\ UNCHANGED <<root, args, psh_config, component_args, hd, wasi_args, component, exit_code>>
    /\ UNCHANGED bgVars
    /\ UNCHANGED beyondMain

\* the choice of the component arguments looking at the daemon flag only
main_select_daemon_only ==
    /\ pc = "select"
    /\ pc' = "daemon"
    /\ component_args' = IF args.daemon
                         THEN psh_config.component_args
                         ELSE args.component_args
    /\ UNCHANGED <<root, args, psh_config, hd, wasi_args, component, exit_code>>
    /\ UNCHANGED bgVars
    /\ UNCHANGED beyondMain

\* let component_args = if args.systemd() || args.daemon() { .. } else { .. }
main_select ==
    /\ pc = "select"
    /\ pc' = "daemon"
    /\ component_args' = IF args.systemd \/ args.daemon
                         THEN psh_config.component_args
                         ELSE args.component_args
    /\ UNCHANGED <<root, args, psh_config, hd, wasi_args, component, exit_code>>
    /\ UNCHANGED bgVars
    /\ UNCHANGED beyondMain

\* if args.daemon() { Daemon::new(..).daemon()? }
main_daemon(ok) ==
    /\ pc = "daemon"
    /\ IF args.daemon /\ ~ok
       THEN pc' = "done" /\ exit_code' = "Err"
       ELSE pc' = "spawn" /\ UNCHANGED exit_code
    /\ UNCHANGED <<root, args, psh_config, component_args, hd, wasi_args, component>>
    /\ UNCHANGED bgVars
    /\ UNCHANGED beyondMain

\* let hd = std::thread::spawn(..)
main_spawn ==
    /\ pc = "spawn"
    /\ pc' = "build"
    /\ hd' = "rt_new"
    /\ UNCHANGED <<root, args, psh_config, component_args, wasi_args, component, exit_code>>
    /\ UNCHANGED bgVars
    /\ UNCHANGED beyondMain

\* PshEngineBuilder::new() .. .wasi_args(&component_args) .. .build()?
main_build(ok) ==
    /\ pc = "build"
    /\ IF ok
       THEN pc' = "run" /\ wasi_args' = <<component_args>> /\ UNCHANGED exit_code
       ELSE pc' = "done" /\ exit_code' = "Err" /\ UNCHANGED wasi_args
    /\ UNCHANGED <<root, args, psh_config, component_args, hd, component>>
    /\ UNCHANGED bgVars
    /\ UNCHANGED beyondMain

\* engine.run(&component_args[0])?: the index panics on an empty vector
main_run(ok) ==
    /\ pc = "run"
    /\ IF component_args = <<>>
       THEN pc' = "done" /\ exit_code' = "panic" /\ UNCHANGED component
       ELSE /\ component' = component_args[1]
            /\ IF ok
               THEN pc' = "join" /\ UNCHANGED exit_code
               ELSE pc' = "done" /\ exit_code' = "Err"
    /\ UNCHANGED <<root, args, psh_config, component_args, hd, wasi_args>>
    /\ UNCHANGED bgVars
    /\ UNCHANGED beyondMain

\* let _ = hd.join(); Ok(()): join waits for the thread to return
main_join ==
    /\ pc = "join"
    /\ hd = "returned"
    /\ pc' = "done"
    /\ exit_code' = "0"
    /\ UNCHANGED <<root, args, psh_config, component_args, hd, wasi_args, component>>
    /\ UNCHANGED bgVars
    /\ UNCHANGED beyondMain

\* ------------------------------------------------- the background thread
MaxBeats == 2        \* heartbeats told apart

\* the process is there for its threads to run in: main has not returned,
\* exited or panicked
ProcessRuns == pc # "done"

\* the closure of the thread returns: rt goes out of scope, and dropping a
\* runtime drops the tasks spawned on it where they wait
ThreadReturns ==
    /\ hd' = "returned"
    /\ rt' = IF rt = "alive" THEN "dropped" ELSE rt
    /\ task' = IF task \in {"connect", "send_info", "heartbeat", "sleep"} THEN "dropped" ELSE task

\* let rt = tokio::runtime::Runtime::new()?
thread_rt_new(ok) ==
    /\ ProcessRuns
    /\ hd = "rt_new"
    /\ IF ok
       THEN hd' = "spawn" /\ rt' = "alive" /\ UNCHANGED task
       ELSE ThreadReturns
    /\ UNCHANGED <<cl, send_infos, info_res, heartbeats>>
    /\ UNCHANGED <<pc, root, args, psh_config, component_args, wasi_args, component, exit_code>>
    /\ UNCHANGED beyondMain

\* rt.spawn(async move { .. })
thread_spawn_task ==
    /\ ProcessRuns
    /\ hd = "spawn"
    /\ hd' = "otlp"
    /\ task' = "connect"
    /\ UNCHANGED <<rt, cl, send_infos, info_res, heartbeats>>
    /\ UNCHANGED <<pc, root, args, psh_config, component_args, wasi_args, component, exit_code>>
    /\ UNCHANGED beyondMain

\* if otlp_conf.enable() { rt.block_on(otlp::otlp_tasks(..))? } Ok(())
thread_otlp ==
    /\ ProcessRuns
    /\ hd = "otlp"
    /\ IF psh_config.otlp
       THEN hd' = "block_on" /\ UNCHANGED <<rt, task>>
       ELSE ThreadReturns
    /\ UNCHANGED <<cl, send_infos, info_res, heartbeats>>
    /\ UNCHANGED <<pc, root, args, psh_config, component_args, wasi_args, component, exit_code>>
    /\ UNCHANGED beyondMain

\* otlp_tasks comes back, with a result or an error, and the closure returns
otlp_tasks_return ==
    /\ ProcessRuns
    /\ hd = "block_on"
    /\ ThreadReturns
    /\ UNCHANGED <<cl, send_infos, info_res, heartbeats>>
    /\ UNCHANGED <<pc, root, args, psh_config, component_args, wasi_args, component, exit_code>>
    /\ UNCHANGED beyondMain

\* the task runs on a runtime that is there, in a process that is
TaskRuns == ProcessRuns /\ rt = "alive"

\* match RpcClient::new(&addr, token).await: with a client, send_info is called
\* at once; without, the error is logged and the task is over
task_connect(ok) ==
    /\ TaskRuns
    /\ task = "connect"
    /\ IF ok
       THEN cl' = "Ok" /\ task' = "send_info" /\ send_infos' = send_infos + 1
       ELSE cl' = "Err" /\ task' = "ended" /\ UNCHANGED send_infos
    /\ UNCHANGED <<rt, info_res, heartbeats>>
    /\ UNCHANGED <<pc, root, args, psh_config, component_args, hd, wasi_args, component, exit_code>>
    /\ UNCHANGED beyondMain

\* if let Err(e) = cl.send_info().await { error!(..) }: either way on to the loop
task_send_info(ok) ==
    /\ TaskRuns
    /\ task = "send_info"
    /\ task' = "heartbeat"
    /\ info_res' = IF ok THEN "Ok" ELSE "Err"
    /\ UNCHANGED <<rt, cl, send_infos, heartbeats>>
    /\ UNCHANGED <<pc, root, args, psh_config, component_args, hd, wasi_args, component, exit_code>>
    /\ UNCHANGED beyondMain

\* cl.heartbeat().await
task_heartbeat ==
    /\ TaskRuns
    /\ task = "heartbeat"
    /\ task' = "sleep"
    /\ heartbeats' = IF heartbeats < MaxBeats THEN heartbeats + 1 ELSE heartbeats
    /\ UNCHANGED <<rt, cl, send_infos, info_res>>
    /\ UNCHANGED <<pc, root, args, psh_config, component_args, hd, wasi_args, component, exit_code>>
    /\ UNCHANGED beyondMain

\* tokio::time::sleep(Duration::from_secs(1)).await, and round the loop
task_sleep ==
    /\ TaskRuns
    /\ task = "sleep"
    /\ task' = "heartbeat"
    /\ UNCHANGED <<rt, cl, send_infos, info_res, heartbeats>>
    /\ UNCHANGED <<pc, root, args, psh_config, component_args, hd, wasi_args, component, exit_code>>
    /\ UNCHANGED beyondMain

ThreadNext ==
    \/ \E ok \in BOOLEAN : thread_rt_new(ok)
    \/ thread_spawn_task
    \/ thread_otlp

TaskNext ==
    \/ \E ok \in BOOLEAN : task_connect(ok)
    \/ \E ok \in BOOLEAN : task_send_info(ok)
    \/ task_heartbeat
    \/ task_sleep

MainNext ==
    \/ main_check_root
    \/ main_read_config
    \/ main_select
    \/ \E ok \in BOOLEAN : main_daemon(ok)
    \/ main_spawn
    \/ \E ok \in BOOLEAN : main_build(ok)
    \/ \E ok \in BOOLEAN : main_run(ok)
    \/ main_join
    \/ ThreadNext
    \/ otlp_tasks_return
    \/ TaskNext

\* a program that is not the one looked at: started, and left at that
NotRun ==
    Started({TRUE}, {[systemd |-> FALSE, daemon |-> FALSE, component_args |-> <<>>]},
            {[from |-> "default", component_args |-> <<>>, otlp |-> FALSE]})

GroupNext ==
    \/ \E g \in Groups : counter_group_new(g)
    \/ \E g \in Groups, cfg \in Configs : counter_group_add_member(g, cfg)
    \/ \E g \in Groups : counter_group_enable(g)
    \/ \E g \in Groups : counter_group_stat(g)
    \/ \E g \in Groups : counter_group_into_fixed(g)
    \/ \E g \in Groups : counter_group_drop(g)
    \/ \E g \in Groups : fixed_counter_group_enable(g)
    \/ \E g \in Groups : fixed_counter_group_disable(g)
    \/ \E g \in Groups : fixed_counter_group_reset(g)
    \/ \E g \in Groups : fixed_counter_group_stat(g)
    \/ \E g \in Groups : fixed_counter_group_close(g)
    \/ \E k \in 1..MaxFd : counter_guard_event_id(k)
    \/ \E k \in 1..MaxFd : counter_guard_stat(k)
    \/ \E run \in SUBSET Schedulable : KernelTick(run)
    \/ Teardown

\* the lifetime of counters and groups beside one another: what is opened,
\* handed over, switched and closed (no time passes and nothing is read)
\* a single Counter: opened, switched, reset, read and closed, as time passes
CounterNext ==
    \/ \E c \in Counters, cfg \in Configs : counter_new(c, cfg)
    \/ \E c \in Counters : counter_enable(c)
    \/ \E c \in Counters : counter_disable(c)
    \/ \E c \in Counters : counter_reset(c)
    \/ \E c \in Counters : counter_stat(c)
    \/ \E c \in Counters : counter_close(c)
    \/ \E run \in SUBSET Schedulable : KernelTick(run)
    \/ Teardown

PerfNext ==
    \/ \E c \in Counters, cfg \in Configs : counter_new(c, cfg)
    \/ \E c \in Counters : counter_close(c)
    \/ \E g \in Groups : counter_group_new(g)
    \/ \E g \in Groups, cfg \in Configs : counter_group_add_member(g, cfg)
    \/ \E g \in Groups : counter_group_enable(g)
    \/ \E g \in Groups : counter_group_into_fixed(g)
    \/ \E g \in Groups : counter_group_drop(g)
    \/ \E g \in Groups : fixed_counter_group_enable(g)
    \/ \E g \in Groups : fixed_counter_group_disable(g)
    \/ \E g \in Groups : fixed_counter_group_close(g)
    \/ Teardown

vars == <<perfVars, exportVars, hostVars, cpuVars, sysVars, mainVars, cacheVars>>

\* the counters, beside an export bridge and a sandbox that stay as built
InitPerf == PerfInit /\ ExportCtx({"None"}) /\ Sandbox({{}}, {"x86_64"}) /\ Cpuinfo({TRUE}, {<<>>}) /\ SysCtx /\ NotRun /\ NoCacheLine

\* the export bridge, with a transport or without
InitExport ==
    PerfInit /\ ExportCtx({"None", "Some"}) /\ Sandbox({{}}, {"x86_64"}) /\ Cpuinfo({TRUE}, {<<>>}) /\ SysCtx /\ NotRun /\ NoCacheLine

\* the sandbox, for every component and architecture
InitHost ==
    PerfInit /\ ExportCtx({"None"}) /\ Sandbox(SUBSET Domains, Archs) /\ Cpuinfo({TRUE}, {<<>>}) /\ SysCtx /\ NotRun /\ NoCacheLine

\* the parsers, for every cpuinfo file
InitCpuinfo ==
    PerfInit /\ ExportCtx({"None"}) /\ Sandbox({{}}, {"x86_64"}) /\ Cpuinfo(BOOLEAN, CpuinfoFiles) /\ SysCtx /\ NotRun /\ NoCacheLine

\* the process handles of a new SysCtx
InitSys ==
    PerfInit /\ ExportCtx({"None"}) /\ Sandbox({{}}, {"x86_64"}) /\ Cpuinfo({TRUE}, {<<>>}) /\ SysCtx /\ NotRun /\ NoCacheLine

\* the "cache size" lines, read by a build with overflow checks and by one without
InitCache ==
    /\ PerfInit /\ ExportCtx({"None"}) /\ Sandbox({{}}, {"x86_64"})
    /\ Cpuinfo({TRUE}, {<<>>}) /\ SysCtx /\ NotRun /\ CacheLine(CacheValues, BOOLEAN)

\* main, for every command line and configuration
InitMain ==
    /\ PerfInit /\ ExportCtx({"None"}) /\ Sandbox({{}}, {"x86_64"})
    /\ Cpuinfo({TRUE}, {<<>>}) /\ SysCtx /\ Started(BOOLEAN, AllClis, AllConfs) /\ NoCacheLine

SpecGroup == InitPerf /\ [][GroupNext]_vars

SpecPerf == InitPerf /\ [][PerfNext]_vars

SpecCounter == InitPerf /\ [][CounterNext]_vars

SpecExport == InitExport /\ [][ExportNext]_vars

SpecHost == InitHost /\ [][HostNext]_vars

SpecCpuinfo == InitCpuinfo /\ [][CpuinfoNext]_vars

SpecSys == InitSys /\ [][SysNext]_vars

SpecMain == InitMain /\ [][MainNext]_vars

SpecCache == InitCache /\ [][CacheNext]_vars

\* main up to the run of the guest, the index that panics, and after the run
MainSetup ==
    \/ main_check_root
    \/ main_read_config
    \/ main_select
    \/ \E ok \in BOOLEAN : main_daemon(ok)
    \/ main_spawn
    \/ \E ok \in BOOLEAN : main_build(ok)
    \/ (component_args = <<>> /\ main_run(TRUE))
    \/ main_join

\* the same with the scheduling there is: a thread that can take its next step
\* takes it, and so does a task on a runtime that is alive.  Nothing makes
\* the guest or otlp_tasks come to an end.
SpecBackground ==
    /\ InitMain /\ [][MainNext]_vars
    /\ WF_vars(ThreadNext) /\ WF_vars(TaskNext) /\ WF_vars(MainSetup)

\* ============================================================== properties

\* the guards handed out for group g: one per member admitted
Admitted(g) == {k \in DOMAIN guards : guards[k].group = g}

\* enable or into_fixed has been applied to group g
Transitioned(g) == group[g].st = "Moved" \/ fixed[g].trans > 0

\* C1: a group turns from Building to Fixed at most once, and once enable or
\* into_fixed has been applied to it no member is admitted any more: the set of
\* its guards and the members of the FixedCounterGroup stay what they were.
C1_NoMemberAfterTransition ==
    [][\A g \in Groups :
         /\ fixed'[g].trans <= 1
         /\ Transitioned(g) =>
               /\ Admitted(g)' = Admitted(g)
               /\ group'[g].members = group[g].members
               /\ (fixed[g].trans > 0 => fixed'[g].members = fixed[g].members)]_vars

\* a fixed group with all its members, after calls and time have gone by
C1_Witness ==
    \E g \in Groups :
        /\ fixed[g].st = "Fixed" /\ fixed[g].trans = 1
        /\ group[g].st = "Moved"
        /\ Len(fixed[g].members) = MaxMembers
        /\ clock > 0

\* C2: the event ids of the guards of one group are pairwise distinct, and the id
\* a guard reports is the one its member was admitted with, for as long as the
\* guard exists, also after the group is fixed.
C2_EventIdsDistinctAndStable ==
    /\ [](\A j, k \in DOMAIN guards :
            (j # k /\ guards[j].group = guards[k].group) => guards[j].id # guards[k].id)
    /\ [](ret.op = "counter_guard_event_id" => ret.id = kernel[guards[ret.k].fd].id)
    /\ [][\A k \in DOMAIN guards : k \in DOMAIN guards' /\ guards'[k].id = guards[k].id]_vars

\* the second guard of a fixed group reports its id
C2_Witness ==
    /\ ret.op = "counter_guard_event_id"
    /\ ret.k = 2
    /\ fixed[ret.grp].st = "Fixed"
    /\ ret.id # guards[1].id

\* the value that holds descriptor fd is still there
Owned(fd) ==
    \/ \E c \in Counters : counter[c].st = "Active" /\ counter[c].fd = fd
    \/ \E g \in Groups : group[g].st = "Building" /\ fd \in Range(group[g].members)
    \/ \E g \in Groups : fixed[g].st = "Fixed" /\ fd \in Range(fixed[g].members)

\* C6: no descriptor is released twice, none stays open once the Counter or group
\* that held it is gone, and every descriptor that is closed was released once.
C6_ReleasedExactlyOnce ==
    \A fd \in Fds :
        /\ kernel[fd].rel <= 1
        /\ kernel[fd].st = "open" => Owned(fd)
        /\ kernel[fd].st = "closed" => (kernel[fd].rel = 1 /\ ~Owned(fd))
        /\ kernel[fd].st = "free" => kernel[fd].rel = 0

\* a closed counter, a group lost by a failed enable, and the instance torn down
C6_Witness ==
    /\ torn
    /\ \E c \in Counters : counter[c].st = "Closed" /\ kernel[counter[c].fd].rel = 1
    /\ \E g \in Groups :
          /\ group[g].st = "Moved" /\ fixed[g].st = "none"
          /\ Len(group[g].members) > 0
          /\ \A fd \in Range(group[g].members) : kernel[fd].rel = 1

\* the events that were opened from Config cfg
OpenedFrom(cfg) == {fd \in Fds : kernel[fd].cfg = cfg}

\* C7, as stated: no two counters or members are ever created from one Config.
C7_ConfigUsedOnce == \A cfg \in Configs : Cardinality(OpenedFrom(cfg)) <= 1

\* C7, amended: counter_new and add_member borrow the Config; the caller keeps
\* every Config it has passed, and each call that succeeds opens an event of its
\* own (its own descriptor and id), also when the Config was used before.
C7_ConfigBorrowed ==
    /\ \A cfg \in Configs : cfgs[cfg].live
    /\ \A a, b \in Fds :
          (a # b /\ kernel[a].st # "free" /\ kernel[b].st # "free") =>
              kernel[a].id # kernel[b].id
    /\ \A c \in Counters, g \in Groups :
          counter[c].st = "Active" => counter[c].fd \notin Range(group[g].members)

\* one Config behind a counter and behind a member of a group
C7_Witness ==
    \E cfg \in Configs, c \in Counters, g \in Groups :
        /\ counter[c].st = "Active" /\ kernel[counter[c].fd].cfg = cfg
        /\ \E fd \in Range(group[g].members) : kernel[fd].cfg = cfg
        /\ cfgs[cfg].live

\* the calls that read a group's counters
GroupStatOps == {"counter_group_stat", "fixed_counter_group_stat", "counter_guard_stat"}

\* C9: every member entry of a stat of a group that was enabled has
\* time_running <= time_enabled and count >= 0.
C9_RunningWithinEnabled ==
    (ret.op \in GroupStatOps /\ ret.ok) =>
        \A i \in DOMAIN ret.stat :
            /\ ret.stat[i].time_running <= ret.stat[i].time_enabled
            /\ ret.stat[i].count >= 0

\* a stat of a group made by enable, whose members were enabled for a tick they
\* did not spend on the PMU
C9_Witness ==
    /\ ret.op = "fixed_counter_group_stat"
    /\ fixed[ret.grp].via = "enable"
    /\ Len(ret.stat) = MaxMembers
    /\ \A i \in DOMAIN ret.stat :
          ret.stat[i].time_enabled > 0 /\ ret.stat[i].time_running < ret.stat[i].time_enabled

\* C10: a stat of a group made by into_fixed, taken before any
\* fixed_counter_group_enable, has time_running = 0 for every member.
C10_IdleUntilEnabled ==
    (/\ ret.op \in {"fixed_counter_group_stat", "counter_guard_stat"}
     /\ ret.ok
     /\ fixed[ret.grp].via = "into_fixed"
     /\ fixed[ret.grp].enables = 0) =>
        \A i \in DOMAIN ret.stat : ret.stat[i].time_running = 0

\* such a stat, of a group with members, taken after time has gone by
C10_Witness ==
    /\ ret.op = "fixed_counter_group_stat"
    /\ fixed[ret.grp].via = "into_fixed"
    /\ fixed[ret.grp].enables = 0
    /\ Len(ret.stat) > 0
    /\ clock = MaxTime

\* C4, as stated: with a transport configured, no export call returns an outer
\* error and none stops the guest, whatever the runtime or the transport does.
C4_ExportNeverTraps ==
    (rpc_client = "Some" /\ xret.op \in {"export_bytes", "export_sample", "export_point"}) =>
        (xret.outer = "Ok" /\ xguest = "running")

\* C5: with no transport configured an export call returns Ok(Ok(())), sends
\* nothing and leaves the export context as it was.
C5_NoTransportNoEffect ==
    [][(rpc_client = "None" /\ calls' # calls) =>
          /\ xret'.outer = "Ok" /\ xret'.inner = "Ok"
          /\ sent' = sent
          /\ rpc_client' = rpc_client
          /\ xguest' = "running"]_vars

\* the last of several export calls made without a transport
C5_Witness ==
    /\ rpc_client = "None"
    /\ calls = MaxCalls
    /\ xret.op = "export_sample"
    /\ sent = <<>>

\* the run is past the instantiation
Linked == phase \notin {"builder", "built"}

\* C3: a component that imports a domain that was not granted makes run fail with
\* ImportResolutionError at instantiation, and in such a run no guest code has
\* executed and no host function has been called.
C3_ResolutionBeforeGuest ==
    /\ (Linked /\ ~(imports \subseteq Granted)) => runres = "ImportResolutionError"
    /\ runres = "ImportResolutionError" => (gsteps = 0 /\ hcalls = 0 /\ phase = "failed")
    /\ (gsteps > 0 \/ hcalls > 0) => imports \subseteq Granted

\* a component importing the performance domain, run in a sandbox that grants
\* only the system domain
C3_Witness ==
    /\ runres = "ImportResolutionError"
    /\ "perf" \in imports
    /\ ~engine["perf"] /\ engine["system"]

\* C8, as stated: every function of a capability domain returns a two-level
\* result, and a failure comes back as an outer or an inner error, nothing else.
C8_TwoLevelResults ==
    hret.fn # "none" =>
        /\ hret.levels = 2
        /\ hret.outcome \in {"ok", "inner_err", "outer_err"}

\* ------------------------------------------------ the cpuinfo parsers, checked
\* the lines of the file that are read: those before the first read error
LinesRead ==
    LET L == proc_cpuinfo.lines
        bad == {i \in DOMAIN L : L[i] = ReadError}
    IN IF bad = {} THEN L
       ELSE SubSeq(L, 1, (CHOOSE i \in bad : \A j \in bad : i <= j) - 1)

\* the lines "processor : n" of the file: one for each logical CPU it describes
ProcessorLines ==
    {i \in DOMAIN proc_cpuinfo.lines :
        /\ Len(proc_cpuinfo.lines[i]) = 2
        /\ proc_cpuinfo.lines[i][1] = "processor"}

\* the n-th of them
ProcessorLine(n) ==
    CHOOSE i \in ProcessorLines : Cardinality({j \in ProcessorLines : j <= i}) = n

\* C11, as stated: for a file that describes N logical CPUs the parser, and
\* get_cpu_info after it, returns N entries in file order, entry i with the
\* processor index of the i-th block.
C11_OneEntryPerCpu ==
    /\ parsed_info.variant \in {"X86_64", "Arm64"} =>
          /\ Len(parsed_info.list) = Cardinality(ProcessorLines)
          /\ \A i \in DOMAIN parsed_info.list :
                parsed_info.list[i].processor =
                    HexDigit[proc_cpuinfo.lines[ProcessorLine(i)][2][1]]
    /\ cpu_res.inner \in {"X86_64", "Arm64"} =>
          Len(cpu_res.list) = Cardinality(ProcessorLines)

\* the index of the n-th empty line among the lines read
EmptyLine(n) ==
    CHOOSE i \in DOMAIN LinesRead :
        /\ LinesRead[i] = <<>>
        /\ Cardinality({j \in 1..i : LinesRead[j] = <<>>}) = n

\* the lines of key `key' in the block that the n-th empty line ends
InBlock(n, key) ==
    {i \in DOMAIN LinesRead :
        /\ i < EmptyLine(n)
        /\ n > 1 => i > EmptyLine(n - 1)
        /\ Len(LinesRead[i]) = 2
        /\ LinesRead[i][1] = key}

\* the value of the last of them
ValueInBlock(n, key) ==
    LinesRead[CHOOSE i \in InBlock(n, key) : \A j \in InBlock(n, key) : j <= i][2]

\* the number a sequence of hexadecimal digits stands for, by place value
RECURSIVE PlaceValue(_)
PlaceValue(d) ==
    IF d = <<>> THEN 0
    ELSE HexDigit[d[Len(d)]] + 16 * PlaceValue(SubSeq(d, 1, Len(d) - 1))

\* the 16-bit number the digits stand for, and 0 for what is no such number:
\* no digit at all, a character that is no hexadecimal digit, more than 65535
HexOrZero(d) ==
    IF /\ d # <<>>
       /\ \A i \in DOMAIN d : d[i] \in DOMAIN HexDigit
       /\ PlaceValue(d) <= U16Max
    THEN PlaceValue(d) ELSE 0

\* v with one leading "0x" taken off, when it has one
WithoutPrefix(v) ==
    IF Len(v) >= 2 /\ v[1] = "0" /\ v[2] = "x" THEN SubSeq(v, 3, Len(v)) ELSE v

\* how many times "0x" stands at the front of v, one after the other
Prefixes(v) ==
    CHOOSE k \in 0..(Len(v) \div 2) :
        /\ \A j \in 1..k : v[2 * j - 1] = "0" /\ v[2 * j] = "x"
        /\ ~(Len(v) >= 2 * k + 2 /\ v[2 * k + 1] = "0" /\ v[2 * k + 2] = "x")

\* v with every leading "0x" taken off
WithoutPrefixes(v) == SubSeq(v, 2 * Prefixes(v) + 1, Len(v))

\* the 16-bit hexadecimal number that d is, with the '+' that from_str_radix
\* lets stand before the digits, and 0 when d is no such number
Hex16OrZero(d) == HexOrZero(IF d # <<>> /\ d[1] = "+" THEN Tail(d) ELSE d)

\* the keys read as hexadecimal, and the fields they fill
HexFields == {<<"CPU implementer", "cpu_implementer">>,
              <<"CPU variant", "cpu_variant">>,
              <<"CPU part", "cpu_part">>}

\* C12, as stated: a hexadecimal field of an aarch64 block is the value of its
\* line with one leading "0x" taken off, read as 16-bit hexadecimal, and 0 when
\* that is no 16-bit hexadecimal number; the guest gets the same number.
C12_HexAfterPrefix ==
    parsed_info.variant = "Arm64" =>
        \A n \in DOMAIN parsed_info.list, kf \in HexFields :
            InBlock(n, kf[1]) # {} =>
                /\ parsed_info.list[n][kf[2]] = Hex16OrZero(WithoutPrefix(ValueInBlock(n, kf[1])))
                /\ cpu_res.inner = "Arm64" =>
                      cpu_res.list[n][kf[2]] = parsed_info.list[n][kf[2]]

\* C12, amended: a hexadecimal field of an aarch64 block is the value of its line
\* with every leading repetition of "0x" taken off, read as 16-bit hexadecimal
\* (0x41 gives 65, 0xd49 gives 3401, and 0x0x41 gives 65 too), and 0 when what
\* is left is no 16-bit hexadecimal number; the guest gets the same number.
C12_HexAfterPrefixes ==
    parsed_info.variant = "Arm64" =>
        \A n \in DOMAIN parsed_info.list, kf \in HexFields :
            InBlock(n, kf[1]) # {} =>
                /\ parsed_info.list[n][kf[2]] =
                      Hex16OrZero(WithoutPrefixes(ValueInBlock(n, kf[1])))
                /\ cpu_res.inner = "Arm64" =>
                      cpu_res.list[n][kf[2]] = parsed_info.list[n][kf[2]]

\* the guest has an aarch64 entry with implementer 0x41 and part 0xd49
C12_Witness ==
    /\ cpu_res.inner = "Arm64"
    /\ Len(cpu_res.list) = 1
    /\ cpu_res.list[1].cpu_implementer = 65
    /\ cpu_res.list[1].cpu_part = 3401

\* the kind each export call gives its envelope
KindOf == [export_bytes |-> "file", export_sample |-> "metric", export_point |-> "measurement"]

\* C13: every envelope handed to the transport has the kind of the call that
\* built it (file, metric, measurement), a size equal to the number of bytes of
\* its payload, and the time range and tag types exactly when it is a metric.
C13_EnvelopeShape ==
    [][sent' # sent =>
          /\ Len(sent') = Len(sent) + 1
          /\ SubSeq(sent', 1, Len(sent)) = sent
          /\ LET e == sent'[Len(sent')]
             IN /\ e.metadata.type = KindOf[xret'.op]
                /\ e.metadata.size = Len(e.payload)
                /\ (e.metadata.metric_meta # <<>>) <=> (e.metadata.type = "metric")
                /\ e.metadata.metric_meta # <<>> =>
                      DOMAIN e.metadata.metric_meta[1] = {"start_time", "end_time", "key_type"}]_vars

\* a metric with tags and a measurement, both handed to the transport
C13_Witness ==
    /\ Len(sent) = 2
    /\ \E i, j \in DOMAIN sent :
          /\ sent[i].metadata.type = "metric"
          /\ S_k \in DOMAIN sent[i].metadata.metric_meta[1].key_type
          /\ sent[i].metadata.size > Len(S_m)
          /\ sent[j].metadata.type = "measurement"

\* counter_group_enable was called on group g and failed
FailedEnable(g) == group[g].by = "enable" /\ fixed[g].trans = 0

\* the calls that act on a Building group and say so in what they return
BuildingOps == {"counter_group_add_member", "counter_group_stat"}

\* C14: a counter_group_enable that fails returns an error, and the group passed
\* to it is gone from then on: it is moved, never Building or Fixed again, it
\* gets no member, and no add_member, stat, enable or into_fixed returns for it.
C14_FailedEnableConsumes ==
    /\ [](\A g \in Groups : FailedEnable(g) => (group[g].st = "Moved" /\ fixed[g].st = "none"))
    /\ [][\A g \in Groups :
            /\ (~FailedEnable(g) /\ FailedEnable(g)') => ~ret'.ok
            /\ FailedEnable(g) =>
                  /\ group'[g] = group[g]
                  /\ fixed'[g] = fixed[g]
                  /\ Admitted(g)' = Admitted(g)
                  /\ ~(ret'.grp = g /\ ret'.op \in BuildingOps \cup {"fixed_counter_group_stat"})
         ]_vars

\* a group with all its members lost to a failed enable, its descriptors closed,
\* and a guard of it asked for its id afterwards
C14_Witness ==
    \E g \in Groups :
        /\ FailedEnable(g)
        /\ Len(group[g].members) = MaxMembers
        /\ \A fd \in Range(group[g].members) : kernel[fd].st = "closed"
        /\ ret.op = "counter_guard_event_id" /\ ret.grp = g

\* C15: an accessor called through a handle whose process has exited, or whose
\* pid belongs to another process by now, returns NotFound; the data an accessor
\* returns is that of the process recorded when the handle was minted.
C15_StaleHandleNotFound ==
    /\ [](sret.outcome = "ok" /\ sret.fn \in Accessors =>
             sret.of = <<table[sret.h].pid, table[sret.h].start>>)
    /\ [][\A c \in pending :
            (c.fn \in Accessors /\ c \notin pending'
                /\ procs[table[c.h].pid] # table[c.h].start) =>
                    (sret'.fn = c.fn /\ sret'.outcome = "NotFound")]_vars

\* an accessor has failed with NotFound on a handle whose pid is in use again,
\* by a process started after the one the handle was minted for
C15_Witness ==
    /\ sret.fn \in Accessors
    /\ sret.outcome = "NotFound"
    /\ procs[table[sret.h].pid] > table[sret.h].start

\* C16: at most one host call of the guest instance is pending at any time, and
\* the state of its context changes only in the return of that one call.
C16_OnePendingCall ==
    /\ [](Cardinality(pending) <= 1)
    /\ [][(table' # table \/ sret' # sret) =>
             (Cardinality(pending) = 1 /\ pending' = {})]_vars

\* an accessor is pending, after other calls of the instance have returned
C16_Witness ==
    /\ \E c \in pending : c.fn \in Accessors
    /\ sret.fn \in Accessors
    /\ Len(table) > 1

\* the members of fixed group g
FixedMembers(g) == Range(fixed[g].members)

\* C17: the members of a fixed group are all enabled or all disabled; a
\* fixed_counter_group_enable, _disable or _reset that succeeds reaches every
\* member in its one step; and event_id and stat of a CounterGuard leave every
\* member counting or not counting as it was, with the count it had.
C17_GroupWideControl ==
    /\ [](\A g \in Groups : fixed[g].st = "Fixed" =>
             \A a, b \in FixedMembers(g) : kernel[a].on = kernel[b].on)
    /\ [][\A g \in Groups :
            /\ (fixed_counter_group_enable(g) /\ ret'.ok) =>
                  \A fd \in FixedMembers(g) : kernel'[fd].on
            /\ (fixed_counter_group_disable(g) /\ ret'.ok) =>
                  \A fd \in FixedMembers(g) : ~kernel'[fd].on
            /\ (fixed_counter_group_reset(g) /\ ret'.ok) =>
                  \A fd \in FixedMembers(g) :
                      kernel'[fd].count = 0 /\ kernel'[fd].on = kernel[fd].on]_vars
    /\ [][(\E k \in DOMAIN guards : counter_guard_event_id(k) \/ counter_guard_stat(k)) =>
             \A fd \in Fds : /\ kernel'[fd].on = kernel[fd].on
                             /\ kernel'[fd].count = kernel[fd].count]_vars

\* a fixed group of several members that was enabled, counted and was disabled
\* again, read through a guard
C17_Witness ==
    \E g \in Groups :
        /\ fixed[g].st = "Fixed"
        /\ Len(fixed[g].members) = MaxMembers
        /\ fixed[g].enables = 1
        /\ \A fd \in FixedMembers(g) : ~kernel[fd].on /\ kernel[fd].tr > 0
        /\ ret.op = "counter_guard_stat" /\ ret.grp = g

\* the kernel event behind Counter c
EventOf(c) == kernel[counter[c].fd]

\* C18: on an open Counter, a counter_enable, counter_disable or counter_reset
\* that succeeds brings the counter to one state whatever it was before (enabled,
\* disabled, count 0) and touches nothing else, so that the same call made again
\* at once changes nothing; counter_stat changes nothing of the counter at all.
C18_TogglesIdempotent ==
    /\ [][\A c \in Counters :
            /\ (counter_enable(c) /\ ret'.ok) =>
                  /\ kernel' = Switched({counter[c].fd}, TRUE)
                  /\ EventOf(c).on => kernel' = kernel
            /\ (counter_disable(c) /\ ret'.ok) =>
                  /\ kernel' = Switched({counter[c].fd}, FALSE)
                  /\ ~EventOf(c).on => kernel' = kernel
            /\ (counter_reset(c) /\ ret'.ok) =>
                  /\ kernel' = Zeroed({counter[c].fd})
                  /\ EventOf(c).count = 0 => kernel' = kernel
            /\ counter_stat(c) => (kernel' = kernel /\ counter' = counter)]_vars
    /\ [][(applied' # applied /\ applied'.n = 2) => kernel' = kernel]_vars

\* a counter that has counted was reset twice in a row, and read after that
C18_Witness ==
    \E c \in Counters :
        /\ counter[c].st = "Active"
        /\ applied.op = "counter_reset" /\ applied.n = 2
        /\ EventOf(c).on /\ EventOf(c).tr > 0 /\ EventOf(c).count = 0
        /\ ret.op = "counter_stat" /\ ret.ok

\* the domain each host function belongs to
DomainOf == [get_cpu_info |-> "system", get_memory_info |-> "system",
             os_version |-> "system", kernel_version |-> "system", perf |-> "perf"]

\* C19: a new builder grants no domain; a domain's grant changes only by the
\* allow call of that very domain; and a guest calls a function of a domain only
\* in a sandbox that was granted that domain.
C19_DenyAllByDefault ==
    /\ \A d \in Domains : ~engine[d]
    /\ [][/\ engine'["perf"] # engine["perf"] => \E b \in BOOLEAN : allow_perf_op(b)
          /\ engine'["system"] # engine["system"] => \E b \in BOOLEAN : allow_system_op(b)]_vars
    /\ [](hret.fn # "none" => engine[DomainOf[hret.fn]])
    /\ [](Executing => imports \subseteq Granted)

\* a guest has called get_cpu_info in a sandbox that was granted the system
\* domain and nothing else
C19_Witness ==
    /\ hret.fn = "get_cpu_info"
    /\ engine["system"] /\ ~engine["perf"]
    /\ imports = {"system"}

\* the argument vector main is to use: the configuration's under the systemd or
\* the daemon flag, the command line's otherwise
ChosenArgs ==
    IF args.systemd \/ args.daemon THEN psh_config.component_args ELSE args.component_args

\* C20: with the systemd or the daemon flag the component argument vector is the
\* one of the configuration that was loaded (the file's, or the default one when
\* the file cannot be read) and the component arguments of the command line play
\* no part; without the flags it is the command line's.  The sandbox is built
\* with that vector and the component that is run is its first element.
C20_ArgsFromConfigWhenDaemon ==
    /\ [][pc = "select" => component_args' = ChosenArgs]_vars
    /\ [][pc # "select" => component_args' = component_args]_vars
    /\ [](wasi_args # <<>> => wasi_args[1] = ChosenArgs)
    /\ [](component # "none" => (ChosenArgs # <<>> /\ component = ChosenArgs[1]))

\* started with the systemd flag alone and with component arguments on the
\* command line, the program has run the component of the configuration
C20_Witness ==
    /\ args.systemd /\ ~args.daemon
    /\ args.component_args # <<>>
    /\ component = "conf.wasm"
    /\ exit_code = "0"

\* C21: on a file that opens, do_parse_cpuinfo with an architecture other than
\* "x86_64" and "aarch64" succeeds with the Unsupported variant carrying
\* "unsupported architecture <arch>"; get_cpu_info hands that text to the guest
\* as the inner error under a successful outer result; and do_parse_cpuinfo
\* returns an error exactly when the file cannot be opened.
C21_UnsupportedIsInnerError ==
    /\ [][\A a \in Archs \ {"x86_64", "aarch64"} :
            (parse_cpuinfo(a) /\ proc_cpuinfo.opened) =>
               /\ parsed_info'.variant = "Unsupported"
               /\ parsed_info'.text = <<"unsupported architecture ", a>>]_vars
    /\ []((parsed_info.variant = "Unsupported" /\ cpu_res.outer # "none") =>
             /\ cpu_res.outer = "Ok"
             /\ cpu_res.inner = "Err"
             /\ cpu_res.text = parsed_info.text)
    /\ [](parsed_info.variant # "none" =>
             (parsed_info.variant = "Err" <=> ~proc_cpuinfo.opened))

\* a riscv64 host has read a cpuinfo file with a block in it, and the guest has
\* its answer
C21_Witness ==
    /\ proc_cpuinfo.opened
    /\ Len(proc_cpuinfo.lines) = MaxLines
    /\ parsed_info.variant = "Unsupported"
    /\ cpu_res.inner = "Err"
    /\ cpu_res.text = <<"unsupported architecture ", "riscv64">>

\* the empty lines among the lines read
EmptyLines == {i \in DOMAIN LinesRead : LinesRead[i] = <<>>}

\* the lines with a ':' in the block that the n-th empty line ends
FieldsOfBlock(n) ==
    {i \in DOMAIN LinesRead :
        /\ i < EmptyLine(n)
        /\ n > 1 => i > EmptyLine(n - 1)
        /\ Len(LinesRead[i]) = 2}

BackgroundOrder ==
    /\ [](send_infos <= 1)
    /\ [](cl = "Ok" => send_infos = 1)
    /\ [](heartbeats > 0 => (send_infos = 1 /\ info_res # "none"))
    /\ [](cl = "Err" => (send_infos = 0 /\ heartbeats = 0))
    /\ [][task_connect(FALSE) =>
            UNCHANGED <<pc, root, args, psh_config, component_args, wasi_args,
                        component, exit_code>>]_vars

\* C23, as stated: send_info is attempted exactly once and before the first
\* heartbeat; with a connection the heartbeats repeat for as long as the
\* program runs, a pause after each, whether send_info failed or not; without
\* one neither send_info nor a heartbeat is sent, and the guest still runs.
C23_HeartbeatsForever ==
    /\ BackgroundOrder
    /\ (cl = "Ok" /\ task # "sleep") ~> (task = "sleep" \/ ~ProcessRuns)

\* the tags an envelope is to carry: the caller's, and after them the tag
\* instance_id with the transport's id, or "unknown" when it gives none
WithInstanceId(tags, idres) ==
    tags \o <<<<S_instance_id, IF idres = "ok" THEN S_i1 ELSE S_unknown>>>>

\* the keys of a list of tags
KeysOf(tags) == {tags[i][1] : i \in DOMAIN tags}

\* the envelope the call has just handed to the transport
LastSent == sent'[Len(sent')]

\* C24: with a transport, export_sample and export_point encode the caller's
\* tags with one tag instance_id after them, whose value is the transport's
\* instance id, or "unknown" when the transport gives none; the tag types of a
\* sample have an entry for every tag, instance_id among them, each "String";
\* and start_time and end_time are both the sample's timestamp, or 0 without one.
C24_InstanceIdTag ==
    /\ [][\A sample \in Samples, idres \in {"ok", "err"}, out \in {"sent", "send_err"} :
            (export_sample(sample, idres, out) /\ rpc_client # "None") =>
               /\ Len(sent') = Len(sent) + 1
               /\ LastSent.payload =
                     LineBytes(sample.name, WithInstanceId(sample.tags, idres),
                               <<<<S_value, sample.value>>>>)
               /\ LET meta == LastSent.metadata.metric_meta[1]
                  IN /\ DOMAIN meta.key_type = KeysOf(sample.tags) \cup {S_instance_id}
                     /\ \A k \in DOMAIN meta.key_type : meta.key_type[k] = "String"
                     /\ meta.start_time = meta.end_time
                     /\ meta.start_time = IF sample.ts = <<>> THEN 0 ELSE sample.ts[1]]_vars
    /\ [][\A point \in Points, idres \in {"ok", "err"}, out \in {"sent", "send_err"} :
            (export_point(point, idres, out) /\ rpc_client # "None") =>
               /\ Len(sent') = Len(sent) + 1
               /\ LastSent.payload =
                     LineBytes(point.name, WithInstanceId(point.tags, idres), point.fields)]_vars

\* a sample with the tag k and no timestamp went out when the transport had no
\* id to give: tag types for k and instance_id, and the time range 0 to 0
C24_Witness ==
    \E i \in DOMAIN sent :
        /\ sent[i].metadata.type = "metric"
        /\ DOMAIN sent[i].metadata.metric_meta[1].key_type = {S_k, S_instance_id}
        /\ sent[i].metadata.metric_meta[1].start_time = 0
        /\ sent[i].payload = LineBytes(S_m, <<<<S_k, S_v>>, <<S_instance_id, S_unknown>>>>,
                                       <<<<S_value, 7>>>>)

\* the number and the unit of a line "<num> <unit>", and the multiplier the
\* claim gives the unit
NumOf(value) == Trim(SplitOnce(value)[1].num)
UnitOf(value) == Trim(SplitOnce(value)[1].unit)
Multiplier == [u \in {<<"B">>, <<"K", "B">>, <<"M", "B">>} |->
                  CASE u = <<"B">> -> 1 [] u = <<"K", "B">> -> 1024 [] OTHER -> 1048576]

\* C25, as stated: for "<num> <unit>" with num a 32-bit unsigned number and a
\* unit B, KB or MB, parse_cache_size returns exactly num times the multiplier
\* of the unit, no 32-bit overflow interfering; it returns 0 when the unit is
\* unknown, when the number does not parse, and when there is no space.
C25_CacheSizeExact ==
    cache_size.res # "none" =>
        LET value == Trim(cache_line.value)
        IN IF /\ SplitOnce(value) # <<>>
              /\ parse_u32(NumOf(value)) # <<>>
              /\ UnitOf(value) \in DOMAIN Multiplier
           THEN /\ cache_size.res = "Ok"
                /\ cache_size.size = MulAdd(parse_u32(NumOf(value))[1], Multiplier[UnitOf(value)], 0)
           ELSE cache_size = [res |-> "Ok", size |-> <<>>]

\* C26: a sandbox is built and a guest component run only when the root check
\* has passed.  Without root privileges the first step of the program is its
\* exit with status 1: main never comes to read arguments or configuration, to
\* choose the component arguments, to daemonize or to start the background
\* thread, and no runtime, task or connection comes to be.
C26_RootCheckFirst ==
    /\ []((wasi_args # <<>> \/ component # "none") => root)
    /\ [](~root => /\ pc \in {"root", "done"}
                   /\ pc = "done" => exit_code = "1"
                   /\ component_args = <<>>
                   /\ hd = "none" /\ rt = "none" /\ task = "none" /\ cl = "none")
    /\ [][(~root /\ pc = "root") => (pc' = "done" /\ exit_code' = "1")]_vars

\* started without root privileges under the daemon flag, the program is over
\* with status 1 and no thread
C26_Witness ==
    /\ ~root
    /\ args.daemon
    /\ pc = "done"
    /\ exit_code = "1"
    /\ hd = "none"

====
